---- MODULE Spec2Model ----
(***************************************************************************)
(* Model of the chess core of reikland/Chess: Board (chess_engine/board.py) *)
(* and the Game driver (chess_engine/game.py).  Squares are (row, column)   *)
(* pairs as in the code, row 0 being rank 8.  Python's None is NoPiece for  *)
(* a piece, NoSquare for a square and the string "None" for a promotion.    *)
(* A bitboard is the set of the indices of its bits.                        *)
(***************************************************************************)
EXTENDS Integers, Sequences, FiniteSets, TLC

None == "None"
NoSquare == << >>
NoPiece == [kind |-> "None", color |-> "None"]

Piece(kind, color) == [kind |-> kind, color |-> color]

Move(start, end, promotion, is_castle, is_en_passant) ==
  [start |-> start, end |-> end, promotion |-> promotion,
   is_castle |-> is_castle, is_en_passant |-> is_en_passant]

MoveState(move, captured, castling_rights, moved_piece, en_passant_square, halfmove_clock) ==
  [move |-> move, captured |-> captured, castling_rights |-> castling_rights,
   moved_piece |-> moved_piece, en_passant_square |-> en_passant_square,
   halfmove_clock |-> halfmove_clock]

Opponent(color) == IF color = "white" THEN "black" ELSE "white"

RECURSIVE FlattenSeq(_)
FlattenSeq(ss) == IF ss = << >> THEN << >> ELSE Head(ss) \o FlattenSeq(Tail(ss))

_square_index(square) == square[1] * 8 + square[2]

_in_bounds(square) == square[1] \in 0..7 /\ square[2] \in 0..7

----------------------------------------------------------------------------
(* Precomputed attack tables *)

knight_offsets ==
  << <<-2, -1>>, <<-2, 1>>, <<2, -1>>, <<2, 1>>,
     <<-1, -2>>, <<-1, 2>>, <<1, -2>>, <<1, 2>> >>

king_offsets ==
  << <<-1, -1>>, <<-1, 0>>, <<-1, 1>>,
     <<0, -1>>, <<0, 1>>,
     <<1, -1>>, <<1, 0>>, <<1, 1>> >>

ray_directions ==
  << <<-1, 0>>, <<1, 0>>, <<0, -1>>, <<0, 1>>,
     <<-1, -1>>, <<-1, 1>>, <<1, -1>>, <<1, 1>> >>

OffsetTargets(idx, offsets) ==
  { _square_index(<<(idx \div 8) + offsets[i][1], (idx % 8) + offsets[i][2]>>) :
      i \in { j \in 1..Len(offsets) :
                _in_bounds(<<(idx \div 8) + offsets[j][1], (idx % 8) + offsets[j][2]>>) } }

KNIGHT_ATTACKS == [idx \in 0..63 |-> OffsetTargets(idx, knight_offsets)]

KING_ATTACKS == [idx \in 0..63 |-> OffsetTargets(idx, king_offsets)]

PAWN_ATTACKS ==
  [color \in {"white", "black"} |->
    [idx \in 0..63 |->
      OffsetTargets(idx, IF color = "white" THEN << <<1, -1>>, <<1, 1>> >>
                                            ELSE << <<-1, -1>>, <<-1, 1>> >>)]]

RECURSIVE RayPath(_, _, _, _)
RayPath(nr, nc, dr, dc) ==
  IF _in_bounds(<<nr, nc>>)
    THEN <<_square_index(<<nr, nc>>)>> \o RayPath(nr + dr, nc + dc, dr, dc)
    ELSE << >>

SLIDING_RAYS ==
  [idx \in 0..63 |->
    [d \in 1..8 |->
      RayPath((idx \div 8) + ray_directions[d][1], (idx % 8) + ray_directions[d][2],
              ray_directions[d][1], ray_directions[d][2])]]

----------------------------------------------------------------------------
(* Board: a record with the fields of the Board object *)

EmptyRows == [r \in 0..7 |-> [c \in 0..7 |-> NoPiece]]

get_piece(b, square) == b.board[square[1]][square[2]]

set_piece(b, square, piece) == [b EXCEPT !.board[square[1]][square[2]] = piece]

PieceAtIndex(b, idx) == b.board[idx \div 8][idx % 8]

\* BoardState.king_positions: the scan overwrites, so the last king found stands.
king_positions(b, color) ==
  LET ks == { idx \in 0..63 : PieceAtIndex(b, idx) = Piece("K", color) }
  IN IF ks = {} THEN NoSquare
     ELSE LET m == CHOOSE i \in ks : \A j \in ks : j <= i IN <<m \div 8, m % 8>>

\* First occupied square of a ray decides; k is the position in the ray.
RECURSIVE RayAttack(_, _, _, _, _)
RayAttack(b, ray, k, by_color, uses_rook) ==
  IF k > Len(ray) THEN FALSE
  ELSE LET piece == PieceAtIndex(b, ray[k]) IN
       IF piece = NoPiece THEN RayAttack(b, ray, k + 1, by_color, uses_rook)
       ELSE /\ piece.color = by_color
            /\ IF uses_rook THEN piece.kind \in {"R", "Q"} ELSE piece.kind \in {"B", "Q"}

_sliding_attack(b, square_idx, by_color) ==
  \E d \in 1..8 : RayAttack(b, SLIDING_RAYS[square_idx][d], 1, by_color, d <= 4)

is_square_attacked(b, square, by_color) ==
  LET idx == _square_index(square) IN
  \/ \E t \in PAWN_ATTACKS[by_color][idx] : PieceAtIndex(b, t) = Piece("P", by_color)
  \/ \E t \in KNIGHT_ATTACKS[idx] : PieceAtIndex(b, t) = Piece("N", by_color)
  \/ \E t \in KING_ATTACKS[idx] : PieceAtIndex(b, t) = Piece("K", by_color)
  \/ _sliding_attack(b, idx, by_color)

in_check(b, color) ==
  LET king_pos == king_positions(b, color) IN
  IF king_pos = NoSquare THEN TRUE
  ELSE is_square_attacked(b, king_pos, Opponent(color))

----------------------------------------------------------------------------
(* apply_move / undo *)

Abs(x) == IF x < 0 THEN -x ELSE x

\* The board after the capture, and the captured pawn.
_resolve_en_passant_capture(b, move, moved_piece) ==
  LET captured_square == <<move.start[1], move.end[2]>>
      captured == get_piece(b, captured_square)
  IN [board |-> set_piece(set_piece(set_piece(b, captured_square, NoPiece),
                                    move.end, moved_piece), move.start, NoPiece),
      captured |-> captured]

\* Variant of _update_castling_rights_after_move that does not look at the
\* captured piece.
_update_castling_rights_ignoring_capture(b, move, moved_piece, captured) ==
  LET cr == b.castling_rights
      white == moved_piece.color = "white"
      king == moved_piece.kind = "K"
      rook == moved_piece.kind = "R"
  IN << cr[1] /\ ~(white /\ (king \/ (rook /\ move.start = <<7, 7>>))),
        cr[2] /\ ~(white /\ (king \/ (rook /\ move.start = <<7, 0>>))),
        cr[3] /\ ~(~white /\ (king \/ (rook /\ move.start = <<0, 7>>))),
        cr[4] /\ ~(~white /\ (king \/ (rook /\ move.start = <<0, 0>>))) >>

_update_castling_rights_after_move(b, move, moved_piece, captured) ==
  LET cr == b.castling_rights
      start == move.start
      end == move.end
      king(color) == moved_piece.kind = "K" /\ moved_piece.color = color
      rook(color, corner) ==
        \/ moved_piece.kind = "R" /\ moved_piece.color = color /\ start = corner
        \/ captured # NoPiece /\ captured.kind = "R" /\ captured.color = color /\ end = corner
  IN << cr[1] /\ ~king("white") /\ ~rook("white", <<7, 7>>),
        cr[2] /\ ~king("white") /\ ~rook("white", <<7, 0>>),
        cr[3] /\ ~king("black") /\ ~rook("black", <<0, 7>>),
        cr[4] /\ ~king("black") /\ ~rook("black", <<0, 0>>) >>

CastleRookStart(move) == IF move.end[2] = 6 THEN <<move.start[1], 7>> ELSE <<move.start[1], 0>>

CastleRookEnd(move) == IF move.end[2] = 6 THEN <<move.start[1], 5>> ELSE <<move.start[1], 3>>

\* apply_move raises ValueError before changing anything when the start square is empty.
apply_move_raises(b, move) == get_piece(b, move.start) = NoPiece

\* Variant of en_passant_target that gives the square the pawn started from.
en_passant_target_at_start(start, end, moved_piece) ==
  IF moved_piece.kind = "P" /\ Abs(start[1] - end[1]) = 2 THEN start ELSE NoSquare

\* Variant of en_passant_target that takes any piece for a pawn.
en_passant_target_for_any_piece(start, end, moved_piece) ==
  IF Abs(start[1] - end[1]) = 2
    THEN <<start[1] + (IF moved_piece.color = "white" THEN -1 ELSE 1), start[2]>>
    ELSE NoSquare

\* The en-passant square apply_move leaves: set by a pawn that moved two rows.
en_passant_target(start, end, moved_piece) ==
  LET direction == IF moved_piece.color = "white" THEN -1 ELSE 1
  IN IF moved_piece.kind = "P" /\ Abs(start[1] - end[1]) = 2
       THEN <<start[1] + direction, start[2]>> ELSE NoSquare

apply_move(b, move) ==
  LET start == move.start
      end == move.end
      moved_piece == get_piece(b, start)
  IN
  IF moved_piece = NoPiece THEN b
  ELSE
    LET ep == _resolve_en_passant_capture(b, move, moved_piece)
        captured == IF move.is_castle THEN NoPiece
                    ELSE IF move.is_en_passant THEN ep.captured
                    ELSE get_piece(b, end)
        placed ==
          IF move.is_castle
            THEN LET k == set_piece(set_piece(b, end, moved_piece), start, NoPiece)
                     rook == get_piece(k, CastleRookStart(move))
                 IN set_piece(set_piece(k, CastleRookEnd(move), rook),
                              CastleRookStart(move), NoPiece)
          ELSE IF move.is_en_passant THEN ep.board
          ELSE set_piece(set_piece(b, end, moved_piece), start, NoPiece)
        promoted ==
          IF move.promotion # None
            THEN set_piece(placed, end, Piece(move.promotion, moved_piece.color))
            ELSE placed
    IN [promoted EXCEPT
          !.en_passant_square = en_passant_target(start, end, moved_piece),
          !.castling_rights = _update_castling_rights_after_move(b, move, moved_piece, captured),
          !.halfmove_clock =
             IF moved_piece.kind = "P" \/ captured # NoPiece THEN 0 ELSE b.halfmove_clock + 1,
          !.history = Append(b.history,
                             MoveState(move, captured, b.castling_rights, moved_piece,
                                       b.en_passant_square, b.halfmove_clock))]

\* What Board.undo returns: the popped MoveState, or None for an empty history.
undo_result(b) == IF b.history = << >> THEN None ELSE "MoveState"

\* Variant of undo that puts the pieces back but keeps the en-passant square
\* the undone move left behind.
undo_keeps_en_passant_square(b) ==
  IF b.history = << >> THEN b
  ELSE
    LET state == b.history[Len(b.history)]
        move == state.move
        moved_piece == state.moved_piece
        restored == [b EXCEPT !.history = SubSeq(b.history, 1, Len(b.history) - 1),
                              !.castling_rights = state.castling_rights,
                              !.halfmove_clock = state.halfmove_clock]
    IN
    IF move.is_castle
      THEN LET k == set_piece(set_piece(restored, move.start, moved_piece), move.end, NoPiece)
               rook == get_piece(k, CastleRookEnd(move))
           IN set_piece(set_piece(k, CastleRookStart(move), rook), CastleRookEnd(move), NoPiece)
    ELSE IF move.is_en_passant
      THEN set_piece(set_piece(set_piece(restored, move.start, moved_piece), move.end, NoPiece),
                     <<move.start[1], move.end[2]>>, state.captured)
    ELSE set_piece(set_piece(restored, move.start, moved_piece), move.end, state.captured)

\* Variant of undo that treats an empty history as a reset of the castling rights.
undo_resets_rights_on_empty_history(b) ==
  IF b.history = << >> THEN [b EXCEPT !.castling_rights = <<FALSE, FALSE, FALSE, FALSE>>]
  ELSE
    LET state == b.history[Len(b.history)]
        move == state.move
        moved_piece == state.moved_piece
        restored == [b EXCEPT !.history = SubSeq(b.history, 1, Len(b.history) - 1),
                              !.castling_rights = state.castling_rights,
                              !.en_passant_square = state.en_passant_square,
                              !.halfmove_clock = state.halfmove_clock]
    IN
    IF move.is_castle
      THEN LET k == set_piece(set_piece(restored, move.start, moved_piece), move.end, NoPiece)
               rook == get_piece(k, CastleRookEnd(move))
           IN set_piece(set_piece(k, CastleRookStart(move), rook), CastleRookEnd(move), NoPiece)
    ELSE IF move.is_en_passant
      THEN set_piece(set_piece(set_piece(restored, move.start, moved_piece), move.end, NoPiece),
                     <<move.start[1], move.end[2]>>, state.captured)
    ELSE set_piece(set_piece(restored, move.start, moved_piece), move.end, state.captured)

undo(b) ==
  IF b.history = << >> THEN b
  ELSE
    LET state == b.history[Len(b.history)]
        move == state.move
        start == move.start
        end == move.end
        moved_piece == state.moved_piece
        restored == [b EXCEPT !.history = SubSeq(b.history, 1, Len(b.history) - 1),
                              !.castling_rights = state.castling_rights,
                              !.en_passant_square = state.en_passant_square,
                              !.halfmove_clock = state.halfmove_clock]
    IN
    IF move.is_castle
      THEN LET k == set_piece(set_piece(restored, start, moved_piece), end, NoPiece)
               rook == get_piece(k, CastleRookEnd(move))
           IN set_piece(set_piece(k, CastleRookStart(move), rook), CastleRookEnd(move), NoPiece)
    ELSE IF move.is_en_passant
      THEN set_piece(set_piece(set_piece(restored, start, moved_piece), end, NoPiece),
                     <<start[1], end[2]>>, state.captured)
    ELSE set_piece(set_piece(restored, start, moved_piece), end, state.captured)

\* Variant of is_fifty_move_draw that waits for one more ply.
is_fifty_move_draw_one_ply_late(b) == b.halfmove_clock > 100

is_fifty_move_draw(b) == b.halfmove_clock >= 100

\* Variant of _move_puts_self_in_check that reports no move as leaving the
\* mover in check.
_move_puts_self_in_check_never(b, move, color) ==
  [in_check |-> FALSE, board |-> undo(apply_move(b, move))]

\* Variant of _move_puts_self_in_check whose unmake step leaves the halfmove
\* clock of the tried move on the board.
_move_puts_self_in_check_keeping_clock(b, move, color) ==
  LET applied == apply_move(b, move)
  IN [in_check |-> in_check(applied, color),
      board |-> [undo(applied) EXCEPT !.halfmove_clock = applied.halfmove_clock]]

\* The check flag, and the board as apply_move followed by undo leaves it.
\* Variant of _move_puts_self_in_check that takes every en-passant capture
\* for safe.
_move_puts_self_in_check_trusting_en_passant(b, move, color) ==
  LET applied == apply_move(b, move)
  IN [in_check |-> ~move.is_en_passant /\ in_check(applied, color), board |-> undo(applied)]

_move_puts_self_in_check(b, move, color) ==
  LET applied == apply_move(b, move)
  IN [in_check |-> in_check(applied, color), board |-> undo(applied)]

----------------------------------------------------------------------------
(* Pseudo-legal move generation *)

\* Variant of _castling_path_is_safe that does not test the squares the king
\* crosses for attacks.
_castling_path_is_safe_unwatched(b, color, kingside) ==
  LET row == IF color = "white" THEN 7 ELSE 0
      empty_squares == IF kingside THEN {<<row, 5>>, <<row, 6>>} ELSE {<<row, 3>>, <<row, 2>>}
  IN /\ ~in_check(b, color)
     /\ get_piece(b, <<row, IF kingside THEN 7 ELSE 0>>) = Piece("R", color)
     /\ \A square \in empty_squares : get_piece(b, square) = NoPiece

_castling_path_is_safe(b, color, kingside) ==
  LET row == IF color = "white" THEN 7 ELSE 0
      empty_squares == IF kingside THEN {<<row, 5>>, <<row, 6>>} ELSE {<<row, 3>>, <<row, 2>>}
      target_files == IF kingside THEN {5, 6} ELSE {3, 2}
      rook == get_piece(b, <<row, IF kingside THEN 7 ELSE 0>>)
  IN /\ ~in_check(b, color)
     /\ rook = Piece("R", color)
     /\ \A square \in empty_squares : get_piece(b, square) = NoPiece
     /\ \A file \in target_files : ~is_square_attacked(b, <<row, file>>, Opponent(color))

PromotionKinds == <<"Q", "R", "B", "N">>

Quiet(start, end) == Move(start, end, None, FALSE, FALSE)

PromotionMoves(start, end) ==
  [i \in 1..4 |-> Move(start, end, PromotionKinds[i], FALSE, FALSE)]

\* May a piece of `color` land on `square`: empty, or an enemy piece that is no king.
CanLand(b, square, color) ==
  LET target == get_piece(b, square)
  IN target = NoPiece \/ (target.color # color /\ target.kind # "K")

PawnMoves(b, r, c, color) ==
  LET direction == IF color = "white" THEN -1 ELSE 1
      start_row == IF color = "white" THEN 6 ELSE 1
      one_step == <<r + direction, c>>
      two_step == <<r + 2 * direction, c>>
      pushes ==
        IF _in_bounds(one_step) /\ get_piece(b, one_step) = NoPiece
          THEN (IF one_step[1] \in {0, 7} THEN PromotionMoves(<<r, c>>, one_step)
                                          ELSE <<Quiet(<<r, c>>, one_step)>>)
               \o (IF r = start_row /\ _in_bounds(two_step) /\ get_piece(b, two_step) = NoPiece
                     THEN <<Quiet(<<r, c>>, two_step)>> ELSE << >>)
          ELSE << >>
      diagonal(dc) ==
        LET diag == <<r + direction, c + dc>>
            target == IF _in_bounds(diag) THEN get_piece(b, diag) ELSE NoPiece
        IN (IF target # NoPiece /\ target.color # color /\ target.kind # "K"
              THEN (IF diag[1] \in {0, 7} THEN PromotionMoves(<<r, c>>, diag)
                                          ELSE <<Quiet(<<r, c>>, diag)>>)
              ELSE << >>)
           \o (IF b.en_passant_square # NoSquare /\ diag = b.en_passant_square
                 THEN LET adjacent_piece == get_piece(b, <<r, c + dc>>)
                      IN IF adjacent_piece # NoPiece /\ adjacent_piece.color # color
                            /\ adjacent_piece.kind = "P"
                           THEN <<Move(<<r, c>>, diag, None, FALSE, TRUE)>> ELSE << >>
                 ELSE << >>)
  IN pushes \o diagonal(-1) \o diagonal(1)

StepMoves(b, r, c, color, offsets) ==
  FlattenSeq([i \in 1..Len(offsets) |->
    LET target == <<r + offsets[i][1], c + offsets[i][2]>>
    IN IF _in_bounds(target) /\ CanLand(b, target, color)
         THEN <<Quiet(<<r, c>>, target)>> ELSE << >>])

\* Variant of SlideMoves whose ray ends on any enemy piece, the king included.
RECURSIVE SlideMoves_onto_any_enemy(_, _, _, _, _, _, _, _)
SlideMoves_onto_any_enemy(b, r, c, nr, nc, dr, dc, color) ==
  IF ~_in_bounds(<<nr, nc>>) THEN << >>
  ELSE LET target == get_piece(b, <<nr, nc>>) IN
       IF target # NoPiece
         THEN (IF target.color # color
                 THEN <<Quiet(<<r, c>>, <<nr, nc>>)>> ELSE << >>)
         ELSE <<Quiet(<<r, c>>, <<nr, nc>>)>>
              \o SlideMoves_onto_any_enemy(b, r, c, nr + dr, nc + dc, dr, dc, color)

RECURSIVE SlideMoves(_, _, _, _, _, _, _, _)
SlideMoves(b, r, c, nr, nc, dr, dc, color) ==
  IF ~_in_bounds(<<nr, nc>>) THEN << >>
  ELSE LET target == get_piece(b, <<nr, nc>>) IN
       IF target # NoPiece
         THEN (IF target.color # color /\ target.kind # "K"
                 THEN <<Quiet(<<r, c>>, <<nr, nc>>)>> ELSE << >>)
         ELSE <<Quiet(<<r, c>>, <<nr, nc>>)>>
              \o SlideMoves(b, r, c, nr + dr, nc + dc, dr, dc, color)

SliderDirections(kind) ==
  (IF kind \in {"B", "Q"} THEN << <<-1, -1>>, <<-1, 1>>, <<1, -1>>, <<1, 1>> >> ELSE << >>)
  \o (IF kind \in {"R", "Q"} THEN << <<-1, 0>>, <<1, 0>>, <<0, -1>>, <<0, 1>> >> ELSE << >>)

CastlingMoves(b, color) ==
  LET row == IF color = "white" THEN 7 ELSE 0
      kingside_right == IF color = "white" THEN b.castling_rights[1] ELSE b.castling_rights[3]
      queenside_right == IF color = "white" THEN b.castling_rights[2] ELSE b.castling_rights[4]
      path_clear == /\ get_piece(b, <<row, 1>>) = NoPiece
                    /\ get_piece(b, <<row, 2>>) = NoPiece
                    /\ get_piece(b, <<row, 3>>) = NoPiece
  IN (IF kingside_right /\ _castling_path_is_safe(b, color, TRUE)
        THEN <<Move(<<row, 4>>, <<row, 6>>, None, TRUE, FALSE)>> ELSE << >>)
     \o (IF queenside_right /\ path_clear /\ _castling_path_is_safe(b, color, FALSE)
           THEN <<Move(<<row, 4>>, <<row, 2>>, None, TRUE, FALSE)>> ELSE << >>)

_generate_pseudo_moves_for_piece(b, position, piece) ==
  LET r == position[1]
      c == position[2]
      color == piece.color
  IN CASE piece.kind = "P" -> PawnMoves(b, r, c, color)
       [] piece.kind = "N" -> StepMoves(b, r, c, color, knight_offsets)
       [] piece.kind \in {"B", "R", "Q"} ->
            LET directions == SliderDirections(piece.kind)
            IN FlattenSeq([i \in 1..Len(directions) |->
                 SlideMoves(b, r, c, r + directions[i][1], c + directions[i][2],
                            directions[i][1], directions[i][2], color)])
       [] piece.kind = "K" ->
            StepMoves(b, r, c, color, king_offsets) \o CastlingMoves(b, color)
       [] OTHER -> << >>

----------------------------------------------------------------------------
(* Legal move generation: the moves, and the board as the apply/undo pairs leave it *)

\* The loop over the pseudo-legal moves pseudo[lo..hi] of one piece, the first
\* half of the moves before the second.
RECURSIVE FilterLegal(_, _, _, _, _)
FilterLegal(b, pseudo, lo, hi, color) ==
  IF lo > hi THEN [moves |-> << >>, board |-> b]
  ELSE IF lo = hi
    THEN LET tried == _move_puts_self_in_check(b, pseudo[lo], color)
         IN [moves |-> IF tried.in_check THEN << >> ELSE <<pseudo[lo]>>,
             board |-> tried.board]
  ELSE LET first == FilterLegal(b, pseudo, lo, (lo + hi) \div 2, color)
           second == FilterLegal(first.board, pseudo, (lo + hi) \div 2 + 1, hi, color)
       IN [moves |-> first.moves \o second.moves, board |-> second.board]

\* The scan of the squares from idx on, from one piece of the colour to the next.
RECURSIVE ScanLegal(_, _, _)
ScanLegal(b, idx, color) ==
  LET own == {i \in idx..63 : PieceAtIndex(b, i) # NoPiece /\ PieceAtIndex(b, i).color = color}
      at == CHOOSE i \in own : \A j \in own : i <= j
      pseudo == _generate_pseudo_moves_for_piece(b, <<at \div 8, at % 8>>,
                                                 PieceAtIndex(b, at))
      here == FilterLegal(b, pseudo, 1, Len(pseudo), color)
      rest == ScanLegal(here.board, at + 1, color)
  IN IF own = {} THEN [moves |-> << >>, board |-> b]
     ELSE [moves |-> here.moves \o rest.moves, board |-> rest.board]

generate_legal_moves(b, color) == ScanLegal(b, 0, color)

----------------------------------------------------------------------------
(* Algebraic names and the repetition key.  A string is the sequence of its *)
(* characters; a name such as "e2" is <<"e", "2">>.                         *)

files == <<"a", "b", "c", "d", "e", "f", "g", "h">>

Digits == <<"1", "2", "3", "4", "5", "6", "7", "8">>

IndexIn(seq, x) == CHOOSE i \in 1..Len(seq) : seq[i] = x

algebraic_to_square(name) == <<8 - IndexIn(Digits, name[2]), IndexIn(files, name[1]) - 1>>

square_to_algebraic(square) == <<files[square[2] + 1], Digits[8 - square[1]]>>

LowerKind == [K |-> "k", Q |-> "q", R |-> "r", B |-> "b", N |-> "n", P |-> "p"]

RECURSIVE RowParts(_, _, _, _)
RowParts(b, r, c, empty) ==
  LET pending == IF empty # 0 THEN <<Digits[empty]>> ELSE << >> IN
  IF c > 7 THEN pending
  ELSE LET piece == b.board[r][c] IN
       IF piece # NoPiece
         THEN pending
              \o <<IF piece.color = "white" THEN piece.kind ELSE LowerKind[piece.kind]>>
              \o RowParts(b, r, c + 1, 0)
         ELSE RowParts(b, r, c + 1, empty + 1)

_castling_rights_fen(b) ==
  LET parts == (IF b.castling_rights[1] THEN <<"K">> ELSE << >>)
               \o (IF b.castling_rights[2] THEN <<"Q">> ELSE << >>)
               \o (IF b.castling_rights[3] THEN <<"k">> ELSE << >>)
               \o (IF b.castling_rights[4] THEN <<"q">> ELSE << >>)
  IN IF parts = << >> THEN <<"-">> ELSE parts

position_key(b, turn_) ==
  LET placement == FlattenSeq([r \in 1..8 |->
                     (IF r > 1 THEN <<"/">> ELSE << >>) \o RowParts(b, r - 1, 0, 0)])
      active_color == IF turn_ = "white" THEN "w" ELSE "b"
      en_passant == IF b.en_passant_square # NoSquare
                      THEN square_to_algebraic(b.en_passant_square) ELSE <<"-">>
  IN placement \o <<" ", active_color, " ">> \o _castling_rights_fen(b) \o <<" ">> \o en_passant

----------------------------------------------------------------------------
(* Zobrist hashing (transposition.py).  The 64-bit keys drawn by            *)
(* _init_zobrist are kept symbolic: a hash is the set of keys XOR-ed into   *)
(* it an odd number of times, so equal sets are equal hashes.               *)

Xor(h, key) == IF key \in h THEN h \ {key} ELSE h \cup {key}

\* The keys of the pieces on the squares from idx on XOR-ed into h: every
\* such key once, and the keys of different squares differ.
XorPieces(b, idx, h) ==
  LET occupied == {i \in idx..63 : PieceAtIndex(b, i) # NoPiece}
      keys == {<<"piece", PieceAtIndex(b, i).color, PieceAtIndex(b, i).kind, i>> :
                 i \in occupied}
  IN (h \ keys) \cup (keys \ h)

RECURSIVE XorCastling(_, _, _)
XorCastling(b, idx, h) ==
  IF idx > 4 THEN h
  ELSE XorCastling(b, idx + 1,
                   IF b.castling_rights[idx] THEN Xor(h, <<"castling", idx - 1>>) ELSE h)

zobrist_hash(b, side_to_move) ==
  LET pieces == XorPieces(b, 0, {})
      castling == XorCastling(b, 1, pieces)
      en_passant == IF b.en_passant_square # NoSquare
                      THEN Xor(castling, <<"en_passant", b.en_passant_square[2]>>)
                      ELSE castling
  IN IF side_to_move = "white" THEN Xor(en_passant, <<"side_to_move">>) ELSE en_passant

\* a ^ b on naturals below 2^bits, the low half of the bits and the high half
RECURSIVE BitXorBits(_, _, _)
BitXorBits(a, b, bits) ==
  IF a = 0 THEN b ELSE IF b = 0 THEN a
  ELSE IF bits = 1 THEN (a + b) % 2
  ELSE LET low == bits \div 2
           m == 2 ^ low
       IN BitXorBits(a % m, b % m, low) + m * BitXorBits(a \div m, b \div m, bits - low)

\* a ^ b on naturals below 2^30
BitXor(a, b) == BitXorBits(a, b, 30)

\* _init_zobrist draws 781 keys in a fixed order: the piece keys colour by
\* colour, kind by kind and square by square, then the castling, en-passant
\* and side-to-move keys.  draw is the number of a key's draw.
ZobristDraw(key) ==
  CASE key[1] = "piece" ->
         ((IndexIn(<<"white", "black">>, key[2]) - 1) * 6
            + IndexIn(<<"K", "Q", "R", "B", "N", "P">>, key[3]) - 1) * 64 + key[4] + 1
    [] key[1] = "castling" -> 769 + key[2]
    [] key[1] = "en_passant" -> 773 + key[2]
    [] OTHER -> 781

\* The random bits of a key: 30 bits that differ from draw to draw stand for
\* the 64 bits of rng.getrandbits(64).
ZobristKey(key) ==
  LET draw == ZobristDraw(key)
  IN ((draw * 7919 + 17) % 32768) * 32768 + ((draw * draw * 31 + draw * 101 + 7) % 32768)

\* The integer a hash stands for, the one a table is indexed with.
RECURSIVE KeyNumber(_)
KeyNumber(h) ==
  IF h = {} THEN 0
  ELSE IF Cardinality(h) = 1 THEN ZobristKey(CHOOSE k \in h : TRUE)
  ELSE LET half == Cardinality(h) \div 2
           early == {k \in h :
                      Cardinality({j \in h : ZobristDraw(j) < ZobristDraw(k)}) < half}
       IN BitXor(KeyNumber(early), KeyNumber(h \ early))

----------------------------------------------------------------------------
(* Construction *)

BackRank == <<"R", "N", "B", "Q", "K", "B", "N", "R">>

_setup_standard ==
  [r \in 0..7 |-> [c \in 0..7 |->
     CASE r = 7 -> Piece(BackRank[c + 1], "white")
       [] r = 0 -> Piece(BackRank[c + 1], "black")
       [] r = 6 -> Piece("P", "white")
       [] r = 1 -> Piece("P", "black")
       [] OTHER -> NoPiece]]

\* Board(): the standard position with every castling right.
NewBoard ==
  [board |-> _setup_standard, castling_rights |-> <<TRUE, TRUE, TRUE, TRUE>>,
   en_passant_square |-> NoSquare, history |-> << >>, halfmove_clock |-> 0]

\* Board.clear() followed by set_piece calls and an assignment to castling_rights,
\* as the tests build a position: pieces is a set of <<name, kind, color>>.
PlacedBoard(pieces, rights) ==
  [board |-> [r \in 0..7 |-> [c \in 0..7 |->
                IF \E p \in pieces : algebraic_to_square(p[1]) = <<r, c>>
                  THEN LET p == CHOOSE q \in pieces : algebraic_to_square(q[1]) = <<r, c>>
                       IN Piece(p[2], p[3])
                  ELSE NoPiece]],
   castling_rights |-> rights,
   en_passant_square |-> NoSquare, history |-> << >>, halfmove_clock |-> 0]

----------------------------------------------------------------------------
(* The transposition table *)

EXACT == "exact"
LOWERBOUND == "lower"
UPPERBOUND == "upper"

\* TTEntry(key, depth, score, flag, best_move); age defaults to 0.
TTEntry(key, depth, score, flag, best_move) ==
  [key |-> key, depth |-> depth, score |-> score, flag |-> flag,
   best_move |-> best_move, age |-> 0]

\* TranspositionTable(size, bucket_size): size empty buckets and a store counter.
TranspositionTable(size, bucket_size) ==
  [size |-> size, bucket_size |-> bucket_size,
   _table |-> [index \in 0..(size - 1) |-> << >>], _counter |-> 0]

_index(table, key) == key % table.size

\* First entry of bucket, from position i on, whose key is key; 0 when there is none.
RECURSIVE FindKey(_, _, _)
FindKey(bucket, i, key) ==
  IF i > Len(bucket) THEN 0
  ELSE IF bucket[i].key = key THEN i
  ELSE FindKey(bucket, i + 1, key)

\* Variant of TranspositionTable.probe that answers with the head of the bucket.
TranspositionTable_probe_first_in_bucket(table, key) ==
  LET bucket == table._table[_index(table, key)]
  IN IF bucket = << >> THEN << >> ELSE <<bucket[1]>>

\* TranspositionTable.probe(key): << >> for None, <<entry>> for a hit.
TranspositionTable_probe(table, key) ==
  LET bucket == table._table[_index(table, key)]
      found == FindKey(bucket, 1, key)
  IN IF found = 0 THEN << >> ELSE <<bucket[found]>>

\* The order of the tuples (depth, age).
Weaker(a, b) == a.depth < b.depth \/ (a.depth = b.depth /\ a.age < b.age)

\* Variant of replacement_idx that picks the newest entry of the bucket.
replacement_idx_newest(bucket) ==
  CHOOSE i \in 1..Len(bucket) : \A j \in 1..Len(bucket) : bucket[j].age <= bucket[i].age

\* min(range(len(bucket)), key=(depth, age)): the first index of a weakest entry.
replacement_idx(bucket) ==
  CHOOSE i \in 1..Len(bucket) :
    \A j \in 1..Len(bucket) :
      /\ ~Weaker(bucket[j], bucket[i])
      /\ (j < i => Weaker(bucket[i], bucket[j]))

\* The table with bucket index replaced and the counter advanced.
WithBucket(table, index, bucket) ==
  [table EXCEPT !._table[index] = bucket, !._counter = table._counter + 1]

\* Variant of TranspositionTable.store that overwrites an entry of the same key
\* whatever its depth.
TranspositionTable_store_overwriting(table, entry) ==
  LET index == _index(table, entry.key)
      bucket == table._table[index]
      aged == [entry EXCEPT !.age = table._counter]
      found == FindKey(bucket, 1, entry.key)
  IN IF found # 0 THEN WithBucket(table, index, [bucket EXCEPT ![found] = aged])
     ELSE IF Len(bucket) < table.bucket_size
       THEN WithBucket(table, index, Append(bucket, aged))
     ELSE IF entry.depth < bucket[replacement_idx(bucket)].depth
       THEN WithBucket(table, index, bucket)
     ELSE WithBucket(table, index, [bucket EXCEPT ![replacement_idx(bucket)] = aged])

\* Variant of TranspositionTable.store that appends the entry to its bucket
\* without looking at what the bucket holds.
TranspositionTable_store_appending(table, entry) ==
  WithBucket(table, _index(table, entry.key),
             Append(table._table[_index(table, entry.key)],
                    [entry EXCEPT !.age = table._counter]))

\* TranspositionTable.store(entry): the table after the call.
TranspositionTable_store(table, entry) ==
  LET index == _index(table, entry.key)
      bucket == table._table[index]
      aged == [entry EXCEPT !.age = table._counter]
      found == FindKey(bucket, 1, entry.key)
  IN IF found # 0
       THEN IF entry.depth >= bucket[found].depth
              THEN WithBucket(table, index, [bucket EXCEPT ![found] = aged])
              ELSE WithBucket(table, index, bucket)
     ELSE IF Len(bucket) < table.bucket_size
       THEN WithBucket(table, index, Append(bucket, aged))
     ELSE IF entry.depth < bucket[replacement_idx(bucket)].depth
       THEN WithBucket(table, index, bucket)
     ELSE WithBucket(table, index, [bucket EXCEPT ![replacement_idx(bucket)] = aged])

\* Variant of probe that does not look at the stored depth.
probe_any_depth(table, key, depth, alpha, beta) ==
  LET hit == TranspositionTable_probe(table, key)
  IN IF hit = << >> THEN << >>
     ELSE IF hit[1].flag = EXACT THEN hit
     ELSE IF hit[1].flag = LOWERBOUND /\ hit[1].score >= beta THEN hit
     ELSE IF hit[1].flag = UPPERBOUND /\ hit[1].score <= alpha THEN hit
     ELSE << >>

\* probe(table, key, depth, alpha, beta): << >> for None, <<entry>> for a hit.
probe(table, key, depth, alpha, beta) ==
  LET hit == TranspositionTable_probe(table, key)
  IN IF hit = << >> THEN << >>
     ELSE IF hit[1].key # key \/ hit[1].depth < depth THEN << >>
     ELSE IF hit[1].flag = EXACT THEN hit
     ELSE IF hit[1].flag = LOWERBOUND /\ hit[1].score >= beta THEN hit
     ELSE IF hit[1].flag = UPPERBOUND /\ hit[1].score <= alpha THEN hit
     ELSE << >>

\* store(table, key, depth, score, flag, best_move): the table after the call.
store(table, key, depth, score, flag, best_move) ==
  TranspositionTable_store(table, TTEntry(key, depth, score, flag, best_move))

\* A move to store, h1-g1 as in tests/test_ai.py; the table never looks inside it.
StoredMove == Move(<<7, 7>>, <<7, 6>>, None, FALSE, FALSE)

\* tests/test_transposition.py builds TranspositionTable(size=4, bucket_size=2).
TableSize == 4

BucketSize == 2

----------------------------------------------------------------------------
(* The Game driver *)

\* board, turn, move_stack, position_counts: the fields of the Game object.
\* outcome: the last call made and how it ended.
\* search: the frame of a running choose_move call.
\* transposition_table: a TranspositionTable built by the caller.
VARIABLES board, turn, move_stack, position_counts, outcome, search, transposition_table

vars == <<board, turn, move_stack, position_counts, outcome, search, transposition_table>>

Outcome(op, raised, request, returned) ==
  [op |-> op, raised |-> raised, request |-> request, returned |-> returned]

NoMove == Move(NoSquare, NoSquare, None, FALSE, FALSE)

\* An optional argument: << >> for None, <<n>> for the number n.
Some(n) == <<n>>

\* No choose_move call is running.
IdleSearch ==
  [pc |-> "idle", board |-> << >>, depth |-> 0, color |-> None, max_nodes |-> << >>,
   deadline |-> FALSE, expired |-> FALSE, legal_moves |-> << >>, current_depth |-> 0,
   idx |-> 0, depth_best_move |-> NoMove, depth_best_score |-> 0,
   best_move |-> NoMove, best_score |-> 0, node_count |-> 0, result |-> NoMove,
   tt_order_entry |-> << >>]

\* Counter lookup: a missing key counts 0.
CountOf(counts, key) == IF key \in DOMAIN counts THEN counts[key] ELSE 0

_record_position(counts, b, turn_) ==
  LET key == position_key(b, turn_)
  IN [k \in DOMAIN counts \cup {key} |-> IF k = key THEN CountOf(counts, k) + 1 ELSE counts[k]]

\* Variant of _decrement_position that forgets to count down.
_decrement_position_keeping_count(counts, b, turn_) == counts

_decrement_position(counts, b, turn_) ==
  LET key == position_key(b, turn_) IN
  IF key \in DOMAIN counts
    THEN IF counts[key] - 1 <= 0
           THEN [k \in DOMAIN counts \ {key} |-> counts[k]]
           ELSE [counts EXCEPT ![key] = counts[key] - 1]
    ELSE counts

\* The loop of make_move over the legal moves: the index of the candidate, 0 for none.
RECURSIVE FindCandidate(_, _, _, _, _)
FindCandidate(legal, k, move_start, move_end, promotion) ==
  IF k > Len(legal) THEN 0
  ELSE LET mv == legal[k]
           here == mv.start = move_start /\ mv.end = move_end
       IN IF \/ here /\ mv.promotion = promotion /\ ~mv.is_en_passant
             \/ here /\ mv.promotion # None /\ promotion = None /\ ~mv.is_en_passant
                     /\ mv.promotion = "Q"
             \/ here /\ mv.is_en_passant
            THEN k
            ELSE FindCandidate(legal, k + 1, move_start, move_end, promotion)

is_threefold_repetition(counts, b, turn_) == CountOf(counts, position_key(b, turn_)) >= 3

is_checkmate(b, color) ==
  IF ~in_check(b, color) THEN FALSE ELSE Len(generate_legal_moves(b, color).moves) = 0

\* Variant of is_stalemate that never reports a stalemate.
is_stalemate_never(b, color) == FALSE

is_stalemate(b, color) ==
  IF in_check(b, color) THEN FALSE ELSE Len(generate_legal_moves(b, color).moves) = 0

is_over(counts, b, turn_) ==
  \/ is_checkmate(b, turn_)
  \/ is_stalemate(b, turn_)
  \/ is_fifty_move_draw(b)
  \/ is_threefold_repetition(counts, b, turn_)

\* Variant of game_status that tests the draws before the checkmate.
game_status_draws_first(counts, b, turn_) ==
  IF is_fifty_move_draw(b) THEN <<"draw by fifty-move rule">>
  ELSE IF is_threefold_repetition(counts, b, turn_) THEN <<"draw by repetition">>
  ELSE IF is_checkmate(b, turn_) THEN <<turn_, "in checkmate">>
  ELSE IF is_stalemate(b, turn_) THEN <<"stalemate">>
  ELSE IF in_check(b, turn_) THEN <<turn_, "in check">>
  ELSE <<"ongoing">>

game_status(counts, b, turn_) ==
  IF is_checkmate(b, turn_) THEN <<turn_, "in checkmate">>
  ELSE IF is_stalemate(b, turn_) THEN <<"stalemate">>
  ELSE IF is_fifty_move_draw(b) THEN <<"draw by fifty-move rule">>
  ELSE IF is_threefold_repetition(counts, b, turn_) THEN <<"draw by repetition">>
  ELSE IF in_check(b, turn_) THEN <<turn_, "in check">>
  ELSE <<"ongoing">>

\* Game.make_move(start, end, promotion); generated is its call of legal_moves().
make_move(generated, start, end, promotion) ==
  LET move_start == algebraic_to_square(start)
      move_end == algebraic_to_square(end)
      legal == generated.moves
      found == FindCandidate(legal, 1, move_start, move_end, promotion)
  IN
  IF found = 0
    THEN /\ board' = generated.board
         /\ outcome' = Outcome("make_move", TRUE, <<start, end, promotion>>, "ValueError")
         /\ UNCHANGED <<turn, move_stack, position_counts>>
    ELSE LET candidate == IF legal[found].promotion # None /\ promotion # None
                            THEN [legal[found] EXCEPT !.promotion = promotion]
                            ELSE legal[found]
             applied == apply_move(generated.board, candidate)
         IN /\ board' = applied
            /\ move_stack' = Append(move_stack, candidate)
            /\ turn' = Opponent(turn)
            /\ position_counts' = _record_position(position_counts, applied, Opponent(turn))
            /\ outcome' = Outcome("make_move", FALSE, <<start, end, promotion>>, "Move")

\* Game.undo()
game_undo ==
  IF move_stack = << >>
    THEN /\ outcome' = Outcome("undo", FALSE, << >>, None)
         /\ UNCHANGED <<board, turn, move_stack, position_counts, search, transposition_table>>
    ELSE /\ position_counts' = _decrement_position(position_counts, board, turn)
         /\ board' = undo(board)
         /\ move_stack' = SubSeq(move_stack, 1, Len(move_stack) - 1)
         /\ turn' = Opponent(turn)
         /\ outcome' = Outcome("undo", FALSE, << >>, None)
         /\ UNCHANGED <<search, transposition_table>>

\* Board.undo() called on the game's board by a caller that finds its history empty.
board_undo ==
  /\ board.history = << >>
  /\ board' = undo(board)
  /\ outcome' = Outcome("board_undo", FALSE, << >>,
                        undo_result(board))
  /\ UNCHANGED <<turn, move_stack, position_counts, search, transposition_table>>

\* Game(): a standard board, White to move, the starting position recorded once.
NewGame ==
  /\ board = NewBoard
  /\ turn = "white"
  /\ move_stack = << >>
  /\ position_counts = _record_position(<< >>, NewBoard, "white")
  /\ outcome = Outcome("init", FALSE, << >>, None)
  /\ search = IdleSearch
  /\ transposition_table = TranspositionTable(TableSize, BucketSize)

Req(start, end, promotion) == [start |-> start, end |-> end, promotion |-> promotion]

MaxPly == 8

StdRequests ==
  { Req(<<"f", "2">>, <<"f", "3">>, None), Req(<<"e", "7">>, <<"e", "5">>, None),
    Req(<<"g", "2">>, <<"g", "4">>, None), Req(<<"d", "8">>, <<"h", "4">>, None),
    Req(<<"g", "1">>, <<"f", "3">>, None), Req(<<"g", "8">>, <<"f", "6">>, None),
    Req(<<"f", "3">>, <<"g", "1">>, None), Req(<<"f", "6">>, <<"g", "8">>, None) }

\* A caller is followed up to the first ValueError it gets.
MakeMoveIn(requests, max_ply) ==
  /\ ~outcome.raised
  /\ Len(move_stack) < max_ply
  /\ LET generated == generate_legal_moves(board, turn)
     IN \E req \in requests : make_move(generated, req.start, req.end, req.promotion)
  /\ UNCHANGED <<search, transposition_table>>

MakeMove == MakeMoveIn(StdRequests, MaxPly)

Undo == ~outcome.raised /\ game_undo

BoardUndo == ~outcome.raised /\ board_undo

Init == NewGame

Next == MakeMove \/ Undo \/ BoardUndo

Spec == Init /\ [][Next]_vars

----------------------------------------------------------------------------
(* Games on positions set up by hand, as the tests do: Game(), then        *)
(* board.clear(), set_piece calls and assignments to castling_rights and   *)
(* turn.  position_counts keeps the entry Game() recorded.                 *)

SetUpGame(pieces, rights, to_move) ==
  /\ board = PlacedBoard(pieces, rights)
  /\ turn = to_move
  /\ move_stack = << >>
  /\ position_counts = _record_position(<< >>, NewBoard, "white")
  /\ outcome = Outcome("init", FALSE, << >>, None)
  /\ search = IdleSearch
  /\ transposition_table = TranspositionTable(TableSize, BucketSize)

NoRights == <<FALSE, FALSE, FALSE, FALSE>>

\* tests/test_board.py, test_en_passant_capture_executes_correctly
EnPassantPieces ==
  { <<<<"e", "1">>, "K", "white">>, <<<<"e", "8">>, "K", "black">>,
    <<<<"e", "5">>, "P", "white">>, <<<<"d", "7">>, "P", "black">> }

\* tests/test_board.py, test_castling_moves_present, with Black's rooks added
CastlingPieces ==
  { <<<<"e", "1">>, "K", "white">>, <<<<"a", "1">>, "R", "white">>,
    <<<<"h", "1">>, "R", "white">>, <<<<"e", "8">>, "K", "black">>,
    <<<<"a", "8">>, "R", "black">>, <<<<"h", "8">>, "R", "black">> }

\* tests/test_board.py, test_pawn_promotion, with a knight to capture on b8
PromotionPieces ==
  { <<<<"a", "7">>, "P", "white">>, <<<<"h", "8">>, "K", "black">>,
    <<<<"h", "1">>, "K", "white">>, <<<<"b", "8">>, "N", "black">> }

InitSetups ==
  \/ SetUpGame(EnPassantPieces, NoRights, "black")
  \/ SetUpGame(CastlingPieces, <<TRUE, TRUE, TRUE, TRUE>>, "white")
  \/ SetUpGame(PromotionPieces, NoRights, "white")

MaxPlySetups == 4

SetupRequests ==
  { Req(<<"d", "7">>, <<"d", "5">>, None), Req(<<"e", "5">>, <<"d", "6">>, None),
    Req(<<"e", "5">>, <<"d", "6">>, "Q"), Req(<<"e", "5">>, <<"e", "6">>, None),
    Req(<<"e", "1">>, <<"g", "1">>, None), Req(<<"e", "1">>, <<"c", "1">>, None),
    Req(<<"e", "8">>, <<"g", "8">>, None), Req(<<"e", "8">>, <<"c", "8">>, None),
    Req(<<"a", "1">>, <<"a", "8">>, None), Req(<<"h", "8">>, <<"h", "1">>, None),
    Req(<<"e", "1">>, <<"e", "2">>, None), Req(<<"e", "8">>, <<"e", "7">>, None),
    Req(<<"a", "7">>, <<"a", "8">>, None), Req(<<"a", "7">>, <<"a", "8">>, "N"),
    Req(<<"a", "7">>, <<"b", "8">>, "R"), Req(<<"a", "7">>, <<"a", "8">>, "K"),
    Req(<<"h", "8">>, <<"h", "7">>, None) }

MakeMoveSetups == MakeMoveIn(SetupRequests, MaxPlySetups)

NextSetups == MakeMoveSetups \/ Undo \/ BoardUndo

SpecSetups == InitSetups /\ [][NextSetups]_vars

----------------------------------------------------------------------------
(* Games about en passant: the capture offered, the capturing pawn pinned   *)
(* on its file or on its rank, and a double push by White.                  *)

\* tests/test_board.py, test_en_passant_does_not_allow_self_check
FilePinPieces ==
  { <<<<"e", "1">>, "K", "white">>, <<<<"h", "8">>, "K", "black">>,
    <<<<"e", "8">>, "R", "black">>, <<<<"e", "5">>, "P", "white">>,
    <<<<"d", "7">>, "P", "black">> }

\* The same with king and rook on the fifth rank, either side of the pawns.
RankPinPieces ==
  { <<<<"a", "5">>, "K", "white">>, <<<<"h", "8">>, "K", "black">>,
    <<<<"h", "5">>, "R", "black">>, <<<<"e", "5">>, "P", "white">>,
    <<<<"d", "7">>, "P", "black">> }

\* A white pawn on its start square beside a black pawn on the fourth rank.
DoublePushPieces ==
  { <<<<"e", "1">>, "K", "white">>, <<<<"e", "8">>, "K", "black">>,
    <<<<"a", "2">>, "P", "white">>, <<<<"b", "4">>, "P", "black">> }

InitEnPassant ==
  \/ SetUpGame(EnPassantPieces, NoRights, "black")
  \/ SetUpGame(FilePinPieces, NoRights, "black")
  \/ SetUpGame(RankPinPieces, NoRights, "black")
  \/ SetUpGame(DoublePushPieces, NoRights, "white")

MaxPlyEnPassant == 3

EnPassantRequests ==
  { Req(<<"d", "7">>, <<"d", "5">>, None), Req(<<"d", "7">>, <<"d", "6">>, None),
    Req(<<"e", "5">>, <<"d", "6">>, None), Req(<<"e", "5">>, <<"e", "6">>, None),
    Req(<<"a", "2">>, <<"a", "4">>, None), Req(<<"a", "2">>, <<"a", "3">>, None),
    Req(<<"b", "4">>, <<"a", "3">>, None), Req(<<"b", "4">>, <<"b", "3">>, None),
    Req(<<"e", "1">>, <<"f", "1">>, None), Req(<<"e", "8">>, <<"e", "7">>, None),
    Req(<<"e", "8">>, <<"e", "6">>, None), Req(<<"h", "8">>, <<"g", "8">>, None),
    Req(<<"a", "5">>, <<"a", "4">>, None), Req(<<"h", "5">>, <<"h", "7">>, None) }

MakeMoveEnPassant == MakeMoveIn(EnPassantRequests, MaxPlyEnPassant)

NextEnPassant == MakeMoveEnPassant \/ Undo \/ BoardUndo

SpecEnPassant == InitEnPassant /\ [][NextEnPassant]_vars

----------------------------------------------------------------------------
(* Games about the kings: from the standard position, and from the position *)
(* of tests/test_game.py, test_king_capture_is_illegal, where White is to   *)
(* move with the queen next to Black's king.                                *)

KingCapturePieces ==
  { <<<<"e", "1">>, "K", "white">>, <<<<"e", "8">>, "K", "black">>,
    <<<<"e", "7">>, "Q", "white">> }

InitKings ==
  \/ NewGame
  \/ SetUpGame(KingCapturePieces, NoRights, "white")

MaxPlyKings == 4

KingRequests ==
  StdRequests \cup
  { Req(<<"e", "7">>, <<"e", "8">>, None), Req(<<"e", "7">>, <<"d", "7">>, None),
    Req(<<"e", "8">>, <<"d", "7">>, None), Req(<<"e", "8">>, <<"e", "7">>, None),
    Req(<<"e", "1">>, <<"e", "2">>, None), Req(<<"h", "4">>, <<"e", "1">>, None),
    Req(<<"e", "7">>, <<"e", "8">>, "K") }

MakeMoveKings == MakeMoveIn(KingRequests, MaxPlyKings)

NextKings == MakeMoveKings \/ Undo \/ BoardUndo

SpecKings == InitKings /\ [][NextKings]_vars

----------------------------------------------------------------------------
(* Games about castling: from the standard position, where the squares      *)
(* between king and rook are occupied, and from kings and rooks alone.      *)

InitCastling ==
  \/ NewGame
  \/ SetUpGame(CastlingPieces, <<TRUE, TRUE, TRUE, TRUE>>, "white")

MaxPlyCastling == 4

CastlingRequests ==
  { Req(<<"e", "1">>, <<"g", "1">>, None), Req(<<"e", "1">>, <<"c", "1">>, None),
    Req(<<"e", "8">>, <<"g", "8">>, None), Req(<<"e", "8">>, <<"c", "8">>, None),
    Req(<<"a", "1">>, <<"a", "8">>, None), Req(<<"h", "8">>, <<"h", "1">>, None),
    Req(<<"e", "1">>, <<"e", "2">>, None), Req(<<"e", "2">>, <<"e", "1">>, None),
    Req(<<"h", "1">>, <<"h", "2">>, None), Req(<<"h", "2">>, <<"h", "1">>, None),
    Req(<<"a", "8">>, <<"d", "8">>, None), Req(<<"h", "8">>, <<"f", "8">>, None),
    Req(<<"g", "1">>, <<"f", "3">>, None), Req(<<"g", "8">>, <<"f", "6">>, None),
    Req(<<"h", "1">>, <<"g", "1">>, None), Req(<<"g", "1">>, <<"h", "1">>, None) }

MakeMoveCastling == MakeMoveIn(CastlingRequests, MaxPlyCastling)

NextCastling == MakeMoveCastling \/ Undo \/ BoardUndo

SpecCastling == InitCastling /\ [][NextCastling]_vars

----------------------------------------------------------------------------
(* Games played to their end: the fool's mate from the start, and a long   *)
(* game without progress on tests/test_game.py,                            *)
(* test_stalemate_detection's pieces with the queen on h7, and two pawns   *)
(* that block each other on g2 and g3                                      *)

ShufflePieces ==
  { <<<<"a", "8">>, "K", "black">>, <<<<"c", "6">>, "K", "white">>,
    <<<<"h", "7">>, "Q", "white">>, <<<<"g", "2">>, "P", "white">>,
    <<<<"g", "3">>, "P", "black">> }

InitFifty == NewGame \/ SetUpGame(ShufflePieces, NoRights, "white")

MaxPlyFifty == 101

ShuffleRequests ==
  { Req(<<"h", "7">>, <<"g", "7">>, None), Req(<<"g", "7">>, <<"h", "7">>, None),
    Req(<<"a", "8">>, <<"b", "8">>, None), Req(<<"b", "8">>, <<"a", "8">>, None),
    Req(<<"h", "7">>, <<"b", "7">>, None), Req(<<"h", "7">>, <<"c", "7">>, None),
    Req(<<"g", "7">>, <<"c", "7">>, None), Req(<<"g", "7">>, <<"g", "3">>, None),
    Req(<<"f", "2">>, <<"f", "3">>, None), Req(<<"e", "7">>, <<"e", "5">>, None),
    Req(<<"g", "2">>, <<"g", "4">>, None), Req(<<"d", "8">>, <<"h", "4">>, None) }

MakeMoveFifty == MakeMoveIn(ShuffleRequests, MaxPlyFifty)

NextFifty == MakeMoveFifty \/ Undo \/ BoardUndo

SpecFifty == InitFifty /\ [][NextFifty]_vars

----------------------------------------------------------------------------
(* The search (ai/engine.py).  choose_move is followed statement by         *)
(* statement at the root.  Below the root, _minimax keeps its budget polls, *)
(* its node count and its terminal scores; the value of a subtree that is   *)
(* searched further is any score, found with any number of further nodes.   *)
(* The wall clock is a flag that may turn true at any poll and stays true.  *)

\* Bound of the static evaluation, in the model's units.
MaxScore == 1

\* Bound of the nodes one subtree adds after its first node.
MaxSubtreeNodes == 1

\* float("inf") and float("-inf"): beyond every evaluation.
PosInf == MaxScore + 1

NegInf == 0 - PosInf

EvalScores == (0 - MaxScore)..MaxScore

\* evaluation.PieceValue, in hundredths.
PieceValue(kind) ==
  CASE kind = "P" -> 100
    [] kind = "N" -> 320
    [] kind = "B" -> 333
    [] kind = "R" -> 510
    [] kind = "Q" -> 900
    [] OTHER -> 0

\* BitboardBoard.from_board: the search works on its own board holding the
\* caller's position with an empty history of its own.
from_board(b) ==
  [board |-> b.board, castling_rights |-> b.castling_rights,
   en_passant_square |-> b.en_passant_square, history |-> << >>,
   halfmove_clock |-> b.halfmove_clock]

_captured_piece(b, move) ==
  IF move.is_en_passant THEN get_piece(b, <<move.start[1], move.end[2]>>)
  ELSE get_piece(b, move.end)

\* killer_moves: depth -> set of moves; history_scores: (start, end, promotion) -> score.
\* The four components, the second in hundredths.
_move_order_score(b, move, killer_moves, history_scores, depth) ==
  LET captured == _captured_piece(b, move)
      mover == get_piece(b, move.start)
      captured_value == IF captured # NoPiece THEN PieceValue(captured.kind) ELSE 0
      mover_value == IF mover # NoPiece THEN PieceValue(mover.kind) ELSE 0
      capture_score == IF captured # NoPiece THEN captured_value * 10 - mover_value ELSE 0
      home_row == IF mover.color = "white" THEN 7 ELSE 0
      development_bonus ==
        IF mover = NoPiece THEN 0
        ELSE (IF move.is_castle THEN 3000 ELSE 0)
             + (IF mover.kind \in {"N", "B"} /\ move.start[1] = home_row THEN 600 ELSE 0)
             + (IF mover.kind = "P" /\ move.start[2] \in {3, 4} THEN 500 ELSE 0)
             + (IF mover.kind = "K" /\ move.end \in {<<7, 6>>, <<7, 2>>, <<0, 6>>, <<0, 2>>}
                  THEN 1200 ELSE 0)
      promotion_bonus == IF move.promotion # None THEN PieceValue(move.promotion) ELSE 0
      killer_bonus == IF depth \in DOMAIN killer_moves /\ move \in killer_moves[depth]
                        THEN 1 ELSE 0
      history_key == <<move.start, move.end, move.promotion>>
      history_score == IF history_key \in DOMAIN history_scores
                         THEN history_scores[history_key] ELSE 0
  IN <<IF captured # NoPiece THEN 1 ELSE 0,
       capture_score + promotion_bonus + development_bonus,
       killer_bonus,
       history_score>>

\* Python's order on tuples of four numbers.
TupleLess(a, b) ==
  \E k \in 1..4 : a[k] < b[k] /\ \A j \in 1..(k - 1) : a[j] = b[j]

\* sorted(moves, key=..., reverse=True): descending and stable.  keys[i] is the
\* key of moves[i]; a move comes after the moves of a greater key and the
\* earlier moves of an equal key.
SortedDescending(moves, keys) ==
  LET Before(j, i) == TupleLess(keys[i], keys[j]) \/ (~TupleLess(keys[j], keys[i]) /\ j < i)
      order == SortSeq([i \in 1..Len(moves) |-> i], Before)
  IN [at \in 1..Len(moves) |-> moves[order[at]]]

\* The root ordering with no killer move and no history score recorded yet.
RootOrder(b, moves, depth) ==
  LET keys == [i \in 1..Len(moves) |-> _move_order_score(b, moves[i], << >>, << >>, depth)]
  IN SortedDescending(moves, keys)

\* The orderings the sort can give once the search below has recorded killer
\* moves and history scores: the capture flag and the capture score still
\* decide first.
RootOrdersWithHistory(b, moves) ==
  LET n == Len(moves)
      keys == [i \in 1..n |-> _move_order_score(b, moves[i], << >>, << >>, 0)]
      Descending(perm) ==
        \A i \in 1..(n - 1) :
          \/ keys[perm[i]][1] > keys[perm[i + 1]][1]
          \/ /\ keys[perm[i]][1] = keys[perm[i + 1]][1]
             /\ keys[perm[i]][2] >= keys[perm[i + 1]][2]
  IN {[i \in 1..n |-> moves[perm[i]]] : perm \in {q \in Permutations(1..n) : Descending(q)}}

\* _terminal_score with the legal moves already generated.
_terminal_score(b, player, maximizing_color, legal_moves) ==
  IF legal_moves # << >> THEN << >>
  ELSE IF in_check(b, player)
    THEN Some(IF player = maximizing_color THEN NegInf ELSE PosInf)
    ELSE Some(0)

\* What time.time() >= deadline can answer, given what it answered before.
Polls(deadline, expired) ==
  IF ~deadline THEN {FALSE} ELSE IF expired THEN {TRUE} ELSE {FALSE, TRUE}

\* _minimax cut short by a budget: the static evaluation of the position.
Cut(count, late) ==
  {[score |-> e, node_count |-> count, expired |-> late] : e \in EvalScores}

\* _minimax past its budget polls, on a position whose terminal score is terminal.
Searched(terminal, max_nodes, count, deadline, late) ==
  IF terminal # << >>
    THEN {[score |-> terminal[1], node_count |-> count, expired |-> late]}
    ELSE {[score |-> sc, node_count |-> count + more, expired |-> later] :
            sc \in NegInf..PosInf, more \in 0..MaxSubtreeNodes,
            later \in Polls(deadline, late)}

\* The results _minimax can give: its score, the node counter and the clock
\* flag as it leaves them.
_minimax(b, depth, current_color, maximizing_color, max_nodes, node_count, deadline, expired) ==
  UNION {
    IF late THEN Cut(node_count, TRUE)
    ELSE IF max_nodes # << >> /\ node_count + 1 > max_nodes[1]
      THEN Cut(node_count + 1, late)
    ELSE Searched(_terminal_score(b, current_color, maximizing_color,
                                  generate_legal_moves(b, current_color).moves),
                  max_nodes, node_count + 1, deadline, late)
    : late \in Polls(deadline, expired)}

\* Variant of tt_best_move that never finds the stored move.
tt_best_move_never(legal_moves, tt_order_entry) == << >>

\* The stored best move popped from legal_moves: << >> when there is no
\* entry, no best move in it, or no such move in the list.
tt_best_move(legal_moves, tt_order_entry) ==
  IF tt_order_entry = << >> THEN << >>
  ELSE IF tt_order_entry[1].best_move = NoMove THEN << >>
  ELSE IF \E i \in 1..Len(legal_moves) : legal_moves[i] = tt_order_entry[1].best_move
    THEN <<tt_order_entry[1].best_move>>
  ELSE << >>

\* legal_moves after the pop
Popped(legal_moves, popped) ==
  IF popped = << >> THEN legal_moves ELSE SelectSeq(legal_moves, LAMBDA m : m # popped[1])

\* choose_move(board, depth, color, max_nodes, time_limit_ms, transposition_table)
\* up to its loop: the ordered legal moves, the stored best move put first,
\* and the two early returns.  generated is its call of
\* generate_legal_moves(color) on its copy of the board; transposition_table
\* is << >> for None.
choose_move(generated, depth, color, max_nodes, time_limit_ms, table) ==
  LET tt_order_entry ==
        IF table = << >> THEN << >>
        ELSE TranspositionTable_probe(table[1], KeyNumber(zobrist_hash(generated.board, color)))
      popped == tt_best_move(generated.moves, tt_order_entry)
      legal_moves == popped \o RootOrder(generated.board, Popped(generated.moves, popped), depth)
      started == [pc |-> "iterate", board |-> generated.board, depth |-> depth,
                  color |-> color, max_nodes |-> max_nodes,
                  deadline |-> (time_limit_ms # << >> /\ time_limit_ms[1] > 0),
                  expired |-> FALSE, legal_moves |-> legal_moves, current_depth |-> 1,
                  idx |-> 0, depth_best_move |-> NoMove, depth_best_score |-> NegInf,
                  best_move |-> NoMove, best_score |-> NegInf, node_count |-> 0,
                  result |-> NoMove, tt_order_entry |-> tt_order_entry]
  IN /\ search' =
          IF legal_moves = << >>
            THEN [started EXCEPT !.pc = "done", !.result = NoMove]
          ELSE IF max_nodes # << >> /\ max_nodes[1] < Len(legal_moves)
            THEN [started EXCEPT !.pc = "done", !.result = legal_moves[1]]
          ELSE started
     /\ outcome' = Outcome("choose_move", FALSE, <<depth, max_nodes, time_limit_ms, table>>,
                           None)
     /\ UNCHANGED <<board, turn, move_stack, position_counts>>

\* The head of one pass of the iterative-deepening loop: the stored best move
\* is popped, the other moves are sorted again for current_depth, and the
\* popped move is put first.
begin_iteration ==
  LET fresh == search.current_depth = 1 \/ search.current_depth = search.depth
      popped == tt_best_move(search.legal_moves, search.tt_order_entry)
      rest == Popped(search.legal_moves, popped)
      orders == IF fresh
                  THEN {RootOrder(search.board, rest, search.current_depth)}
                  ELSE RootOrdersWithHistory(search.board, rest)
  IN \E sorted \in orders :
       /\ search.pc = "iterate"
       /\ search' = [search EXCEPT !.pc = "root", !.legal_moves = popped \o sorted, !.idx = 1,
                                   !.depth_best_move = NoMove, !.depth_best_score = NegInf]
       /\ UNCHANGED <<board, turn, move_stack, position_counts, outcome, transposition_table>>

NodeBudgetSpent == search.max_nodes # << >> /\ search.node_count >= search.max_nodes[1]

\* One pass of the loop over the root moves that reaches apply_move.
search_root_move ==
  /\ search.pc = "root"
  /\ search.idx <= Len(search.legal_moves)
  /\ ~NodeBudgetSpent
  /\ FALSE \in Polls(search.deadline, search.expired)
  /\ LET move == search.legal_moves[search.idx]
         applied == apply_move(search.board, move)
     IN \E r \in _minimax(applied, search.current_depth - 1, Opponent(search.color),
                          search.color, search.max_nodes, search.node_count,
                          search.deadline, search.expired) :
          LET better == search.depth_best_move = NoMove \/ r.score > search.depth_best_score
          IN search' = [search EXCEPT
                          !.board = undo(applied),
                          !.node_count = r.node_count,
                          !.expired = r.expired,
                          !.idx = search.idx + 1,
                          !.depth_best_score = IF better THEN r.score ELSE @,
                          !.depth_best_move = IF better THEN move ELSE @]
  /\ UNCHANGED <<board, turn, move_stack, position_counts, outcome, transposition_table>>

\* list.remove(move) followed by list.insert(0, move)
MoveToFront(moves, move) ==
  <<move>> \o SelectSeq(moves, LAMBDA m : m # move)

\* The loop over the root moves is left, by exhaustion or by a break; the pass
\* ends, and with it the call when a budget is spent or depth is reached.
end_iteration ==
  LET exhausted == search.idx > Len(search.legal_moves)
      polls == IF exhausted \/ NodeBudgetSpent
                 THEN {search.expired}
                 ELSE Polls(search.deadline, search.expired) \ {FALSE}
  IN \E late \in polls :
       LET found == search.depth_best_move # NoMove
           best_move == IF found THEN search.depth_best_move ELSE search.best_move
           best_score == IF found THEN search.depth_best_score ELSE search.best_score
           legal_moves == IF found THEN MoveToFront(search.legal_moves, search.depth_best_move)
                          ELSE search.legal_moves
           ended == [search EXCEPT !.best_move = best_move, !.best_score = best_score,
                                   !.legal_moves = legal_moves]
       IN \E later \in (IF NodeBudgetSpent THEN {late} ELSE Polls(search.deadline, late)) :
            /\ search.pc = "root"
            /\ search' =
                 IF NodeBudgetSpent \/ (search.deadline /\ later)
                      \/ search.current_depth = search.depth
                   THEN [ended EXCEPT !.pc = "done", !.expired = later, !.result = best_move]
                   ELSE [ended EXCEPT !.pc = "iterate", !.expired = later,
                                      !.current_depth = search.current_depth + 1]
            /\ UNCHANGED <<board, turn, move_stack, position_counts, outcome, transposition_table>>

\* ChessApp.play_ai_move once choose_move has returned: no move is reported as
\* "no move available", a move is played with Game.make_move.
play_ai_move ==
  /\ search.pc = "done"
  /\ search' = IdleSearch
  /\ UNCHANGED transposition_table
  /\ IF search.result = NoMove
       THEN /\ outcome' = Outcome("play_ai_move", FALSE, << >>, None)
            /\ UNCHANGED <<board, turn, move_stack, position_counts>>
       ELSE make_move(generate_legal_moves(board, turn),
                      square_to_algebraic(search.result.start),
                      square_to_algebraic(search.result.end),
                      search.result.promotion)

\* test_ai.py-style positions with few moves: a king with one move, a king
\* with two, a stalemated king.
OneMovePieces == { <<<<"h", "1">>, "K", "black">>, <<<<"f", "2">>, "K", "white">> }

TwoMovesPieces == { <<<<"h", "1">>, "K", "black">>, <<<<"f", "3">>, "K", "white">> }

StalematePieces ==
  { <<<<"a", "8">>, "K", "black">>, <<<<"c", "6">>, "K", "white">>,
    <<<<"c", "7">>, "Q", "white">> }

InitSearch ==
  \/ SetUpGame(OneMovePieces, NoRights, "black")
  \/ SetUpGame(TwoMovesPieces, NoRights, "black")
  \/ SetUpGame(StalematePieces, NoRights, "black")

MaxDepth == 2

MaxNodes == 3

MaxPlySearch == 1

\* time_limit_ms: absent, zero, or a positive budget.
TimeLimits == {<< >>, Some(0), Some(1)}

NodeLimits == {<< >>} \cup {Some(n) : n \in 0..MaxNodes}

ChooseMove ==
  /\ search.pc = "idle"
  /\ Len(move_stack) < MaxPlySearch
  /\ LET generated == generate_legal_moves(from_board(board), turn)
     IN \E depth \in 1..MaxDepth, max_nodes \in NodeLimits, time_limit_ms \in TimeLimits,
           table \in {<< >>, <<transposition_table>>} :
          /\ choose_move(generated, depth, turn, max_nodes, time_limit_ms, table)
          /\ transposition_table' = TranspositionTable(TableSize, BucketSize)

\* The caller stores a best move for the position on the board before it
\* calls choose_move, as tests/test_ai.py does: a legal move or h1-g1.
StoreRoot ==
  /\ search.pc = "idle"
  /\ Len(move_stack) < MaxPlySearch
  /\ transposition_table._counter = 0
  /\ LET legal == generate_legal_moves(board, turn).moves
     IN \E best_move \in {legal[i] : i \in 1..Len(legal)} \cup {StoredMove} :
          /\ transposition_table' =
               store(transposition_table, KeyNumber(zobrist_hash(board, turn)), 1, 0, EXACT,
                     best_move)
          /\ outcome' = Outcome("store", FALSE, TTEntry(0, 1, 0, EXACT, best_move), None)
  /\ UNCHANGED <<board, turn, move_stack, position_counts, search>>

NextSearch ==
  \/ StoreRoot
  \/ ChooseMove
  \/ begin_iteration
  \/ search_root_move
  \/ end_iteration
  \/ play_ai_move

SpecSearch == InitSearch /\ [][NextSearch]_vars

\* choose_move followed up to its loop only: the calls that return before
\* searching, with and without a stored move.
NextRootOrder == StoreRoot \/ ChooseMove \/ play_ai_move

SpecRootOrder == InitSearch /\ [][NextRootOrder]_vars

----------------------------------------------------------------------------
(* The evaluation (evaluation.py and the mobility term of ai/engine.py).    *)
(* The code computes in floats of pawns; here every term is an integer: a   *)
(* midgame or endgame term counts 1/24000 of a pawn, the phase counts 1/24, *)
(* and an evaluation counts 1/576000 of a pawn, so that the interpolation   *)
(* phase * mid + (1 - phase) * end is exact.                                *)

\* s[lo] + ... + s[hi], the first half of the terms and the second
RECURSIVE SumRange(_, _, _)
SumRange(s, lo, hi) ==
  IF lo > hi THEN 0
  ELSE IF lo = hi THEN s[lo]
  ELSE SumRange(s, lo, (lo + hi) \div 2) + SumRange(s, (lo + hi) \div 2 + 1, hi)

SumSeq(s) == SumRange(s, 1, Len(s))

\* Board.iter_pieces: the occupied squares, by index.
iter_pieces(b) ==
  SelectSeq([i \in 1..64 |-> i - 1], LAMBDA idx : PieceAtIndex(b, idx) # NoPiece)

\* Board._king_position: the first king of the colour met by the scan.
_king_position(b, color) ==
  LET ks == {idx \in 0..63 : PieceAtIndex(b, idx) = Piece("K", color)}
  IN IF ks = {} THEN NoSquare
     ELSE LET m == CHOOSE i \in ks : \A j \in ks : i <= j IN <<m \div 8, m % 8>>

Sign(color) == IF color = "white" THEN 1 ELSE -1

PHASE_WEIGHTS(kind) ==
  CASE kind \in {"N", "B"} -> 1 [] kind = "R" -> 2 [] kind = "Q" -> 4 [] OTHER -> 0

TOTAL_PHASE == 24

\* _game_phase, in 24ths: max(0, min(1, remaining_phase / TOTAL_PHASE))
_game_phase(b) ==
  LET occupied == iter_pieces(b)
      remaining_phase ==
        SumSeq([i \in 1..Len(occupied) |-> PHASE_WEIGHTS(PieceAtIndex(b, occupied[i]).kind)])
  IN IF remaining_phase > TOTAL_PHASE THEN TOTAL_PHASE ELSE remaining_phase

\* The piece-square tables, in hundredths of a pawn.
MIDGAME_TABLES(kind) ==
  CASE kind = "P" ->
    << <<0, 0, 0, 0, 0, 0, 0, 0>>,
       <<5, 10, 10, -10, -10, 10, 10, 5>>,
       <<5, -5, -5, 10, 10, -5, -5, 5>>,
       <<0, 0, 0, 20, 20, 0, 0, 0>>,
       <<5, 5, 10, 25, 25, 10, 5, 5>>,
       <<10, 10, 15, 20, 20, 15, 10, 10>>,
       <<20, 20, 20, 25, 25, 20, 20, 20>>,
       <<0, 0, 0, 0, 0, 0, 0, 0>> >>
  [] kind = "N" ->
    << <<-50, -40, -30, -25, -25, -30, -40, -50>>,
       <<-35, -15, 0, 10, 10, 0, -15, -35>>,
       <<-25, 5, 15, 20, 20, 15, 5, -25>>,
       <<-20, 5, 20, 25, 25, 20, 5, -20>>,
       <<-20, 5, 20, 25, 25, 20, 5, -20>>,
       <<-25, 0, 15, 20, 20, 15, 0, -25>>,
       <<-35, -20, -5, 5, 5, -5, -20, -35>>,
       <<-50, -35, -25, -20, -20, -25, -35, -50>> >>
  [] kind = "B" ->
    << <<-20, -10, -10, -5, -5, -10, -10, -20>>,
       <<-10, 0, 5, 0, 0, 5, 0, -10>>,
       <<-5, 10, 15, 10, 10, 15, 10, -5>>,
       <<-5, 5, 15, 20, 20, 15, 5, -5>>,
       <<-5, 5, 15, 20, 20, 15, 5, -5>>,
       <<-5, 5, 10, 15, 15, 10, 5, -5>>,
       <<-10, 0, 5, 5, 5, 5, 0, -10>>,
       <<-20, -10, -10, -5, -5, -10, -10, -20>> >>
  [] kind = "R" ->
    << <<-5, 0, 5, 5, 5, 5, 0, -5>>,
       <<-5, 5, 10, 15, 15, 10, 5, -5>>,
       <<-5, 5, 10, 15, 15, 10, 5, -5>>,
       <<-5, 5, 10, 15, 15, 10, 5, -5>>,
       <<-5, 5, 10, 15, 15, 10, 5, -5>>,
       <<-5, 5, 10, 15, 15, 10, 5, -5>>,
       <<5, 10, 15, 20, 20, 15, 10, 5>>,
       <<5, 5, 10, 15, 15, 10, 5, 5>> >>
  [] kind = "Q" ->
    << <<-20, -10, -10, -5, -5, -10, -10, -20>>,
       <<-10, 0, 5, 5, 5, 5, 0, -10>>,
       <<-10, 5, 10, 10, 10, 10, 5, -10>>,
       <<-5, 5, 10, 10, 10, 10, 5, -5>>,
       <<-5, 5, 10, 10, 10, 10, 5, -5>>,
       <<-10, 5, 10, 10, 10, 10, 5, -10>>,
       <<-10, 0, 5, 5, 5, 5, 0, -10>>,
       <<-20, -10, -10, -5, -5, -10, -10, -20>> >>
  [] kind = "K" ->
    << <<20, 30, 10, 0, 0, 10, 30, 20>>,
       <<20, 20, 0, 0, 0, 0, 20, 20>>,
       <<-10, -20, -20, -20, -20, -20, -20, -10>>,
       <<-20, -30, -30, -40, -40, -30, -30, -20>>,
       <<-30, -40, -40, -50, -50, -40, -40, -30>>,
       <<-30, -40, -40, -50, -50, -40, -40, -30>>,
       <<-30, -40, -40, -50, -50, -40, -40, -30>>,
       <<-30, -40, -40, -50, -50, -40, -40, -30>> >>

ENDGAME_TABLES(kind) ==
  CASE kind = "P" ->
    << <<0, 0, 0, 0, 0, 0, 0, 0>>,
       <<20, 20, 20, 25, 25, 20, 20, 20>>,
       <<10, 10, 15, 20, 20, 15, 10, 10>>,
       <<5, 5, 10, 25, 25, 10, 5, 5>>,
       <<0, 0, 0, 20, 20, 0, 0, 0>>,
       <<5, -5, -5, 10, 10, -5, -5, 5>>,
       <<5, 10, 10, -10, -10, 10, 10, 5>>,
       <<0, 0, 0, 0, 0, 0, 0, 0>> >>
  [] kind = "N" ->
    << <<-40, -30, -20, -15, -15, -20, -30, -40>>,
       <<-25, -5, 5, 15, 15, 5, -5, -25>>,
       <<-15, 10, 20, 25, 25, 20, 10, -15>>,
       <<-10, 10, 25, 30, 30, 25, 10, -10>>,
       <<-10, 10, 25, 30, 30, 25, 10, -10>>,
       <<-15, 5, 20, 25, 25, 20, 5, -15>>,
       <<-25, -5, 5, 10, 10, 5, -5, -25>>,
       <<-35, -25, -20, -15, -15, -20, -25, -35>> >>
  [] kind = "B" ->
    << <<-15, -10, -5, 0, 0, -5, -10, -15>>,
       <<-5, 5, 10, 15, 15, 10, 5, -5>>,
       <<0, 10, 15, 20, 20, 15, 10, 0>>,
       <<0, 10, 20, 25, 25, 20, 10, 0>>,
       <<0, 10, 20, 25, 25, 20, 10, 0>>,
       <<0, 10, 15, 20, 20, 15, 10, 0>>,
       <<-5, 5, 10, 15, 15, 10, 5, -5>>,
       <<-15, -10, -5, 0, 0, -5, -10, -15>> >>
  [] kind = "R" ->
    << <<-5, 0, 5, 5, 5, 5, 0, -5>>,
       <<0, 5, 10, 15, 15, 10, 5, 0>>,
       <<5, 10, 15, 20, 20, 15, 10, 5>>,
       <<5, 10, 15, 25, 25, 15, 10, 5>>,
       <<5, 10, 15, 25, 25, 15, 10, 5>>,
       <<5, 10, 15, 20, 20, 15, 10, 5>>,
       <<0, 5, 10, 15, 15, 10, 5, 0>>,
       <<-5, 0, 5, 5, 5, 5, 0, -5>> >>
  [] kind = "Q" ->
    << <<-25, -15, -15, -10, -10, -15, -15, -25>>,
       <<-15, -5, 0, 5, 5, 0, -5, -15>>,
       <<-10, 0, 5, 10, 10, 5, 0, -10>>,
       <<-5, 5, 10, 15, 15, 10, 5, -5>>,
       <<-5, 5, 10, 15, 15, 10, 5, -5>>,
       <<-10, 0, 5, 10, 10, 5, 0, -10>>,
       <<-15, -5, 0, 5, 5, 0, -5, -15>>,
       <<-25, -15, -15, -10, -10, -15, -15, -25>> >>
  [] kind = "K" ->
    << <<-10, -5, 0, 5, 5, 0, -5, -10>>,
       <<-5, 5, 10, 15, 15, 10, 5, -5>>,
       <<0, 10, 15, 20, 20, 15, 10, 0>>,
       <<5, 15, 20, 25, 25, 20, 15, 5>>,
       <<10, 20, 25, 30, 30, 25, 20, 10>>,
       <<15, 25, 30, 35, 35, 30, 25, 15>>,
       <<15, 25, 30, 35, 35, 30, 25, 15>>,
       <<10, 20, 25, 30, 30, 25, 20, 10>> >>

_piece_square_value(table, piece, row, col) ==
  table[(IF piece.color = "white" THEN row ELSE 7 - row) + 1][col + 1]

\* _material_and_position: <<mid_score, end_score>>
_material_and_position(b) ==
  LET occupied == iter_pieces(b)
      Term(idx, table) ==
        LET piece == PieceAtIndex(b, idx)
        IN Sign(piece.color) * 240
             * (PieceValue(piece.kind)
                  + _piece_square_value(table, piece, idx \div 8, idx % 8))
  IN << SumSeq([i \in 1..Len(occupied) |->
                  Term(occupied[i], MIDGAME_TABLES(PieceAtIndex(b, occupied[i]).kind))]),
        SumSeq([i \in 1..Len(occupied) |->
                  Term(occupied[i], ENDGAME_TABLES(PieceAtIndex(b, occupied[i]).kind))]) >>

_file_has_pawn(b, file_index, color) ==
  \E r \in 0..7 : get_piece(b, <<r, file_index>>) = Piece("P", color)

\* 2 * (abs(3.5 - r) + abs(3.5 - c))
CenterDistance2(r, c) == Abs(7 - 2 * r) + Abs(7 - 2 * c)

\* king_safety: <<mid_score, end_score>>
king_safety(b) ==
  LET Of(color) ==
        LET king_pos == _king_position(b, color)
            r == king_pos[1]
            c == king_pos[2]
            direction == IF color = "white" THEN -1 ELSE 1
            shield == Cardinality({dc \in {-1, 0, 1} :
                        /\ _in_bounds(<<r + direction, c + dc>>)
                        /\ get_piece(b, <<r + direction, c + dc>>) = Piece("P", color)})
            score == shield * 3600 - (IF _file_has_pawn(b, c, color) THEN 0 ELSE 6000)
            centralization == (7 - CenterDistance2(r, c)) * 600
        IN IF king_pos = NoSquare THEN <<0, 0>>
           ELSE <<Sign(color) * score, Sign(color) * centralization>>
  IN <<Of("white")[1] + Of("black")[1], Of("white")[2] + Of("black")[2]>>

\* _pawn_files(board, color)[file_index]: the rows of the colour's pawns on the file
_pawn_files(b, color, file_index) ==
  IF file_index \in 0..7
    THEN {r \in 0..7 : get_piece(b, <<r, file_index>>) = Piece("P", color)}
    ELSE {}

pawn_structure(b) ==
  LET OfFile(color, file_index) ==
        LET pawns == _pawn_files(b, color, file_index)
            opponent == Opponent(color)
            has_neighbor == \/ _pawn_files(b, color, file_index - 1) # {}
                            \/ _pawn_files(b, color, file_index + 1) # {}
            rows_ahead(pawn_row) ==
              IF color = "white" THEN 0..(pawn_row - 1) ELSE (pawn_row + 1)..7
            passed == {pawn_row \in pawns :
                         \A f \in {file_index - 1, file_index, file_index + 1} :
                           _pawn_files(b, opponent, f) \cap rows_ahead(pawn_row) = {}}
        IN Sign(color)
             * ((IF Cardinality(pawns) > 1 THEN 0 - 4800 * (Cardinality(pawns) - 1) ELSE 0)
                - (IF has_neighbor THEN 0 ELSE 3600)
                + 7200 * Cardinality(passed))
  IN SumSeq([i \in 1..16 |->
       OfFile(IF i <= 8 THEN "white" ELSE "black", (i - 1) % 8)])

_minor_centralization(b) ==
  LET occupied == iter_pieces(b)
  IN SumSeq([i \in 1..Len(occupied) |->
       LET piece == PieceAtIndex(b, occupied[i])
       IN IF piece.kind \in {"N", "B"}
            THEN Sign(piece.color)
                   * (7 - CenterDistance2(occupied[i] \div 8, occupied[i] % 8)) * 360
            ELSE 0])

\* The weights of _mobility on the difference of the two move counts.
MobilityTerm(diff) == <<diff * 240, diff * 96>>

\* _mobility: <<mid, end>> from the legal moves of both sides
_mobility(b) ==
  MobilityTerm(Len(generate_legal_moves(b, "white").moves)
                 - Len(generate_legal_moves(b, "black").moves))

_pawn_attacks_square(b, square, attacker) ==
  LET direction == IF attacker = "white" THEN -1 ELSE 1
  IN \E dc \in {-1, 1} :
       /\ _in_bounds(<<square[1] + direction, square[2] + dc>>)
       /\ get_piece(b, <<square[1] + direction, square[2] + dc>>) = Piece("P", attacker)

\* _outpost_squares: <<mid_score, end_score>>
_outpost_squares(b) ==
  LET occupied == iter_pieces(b)
      Bonus(idx) ==
        LET piece == PieceAtIndex(b, idx)
            square == <<idx \div 8, idx % 8>>
        IN IF /\ piece.kind \in {"N", "B"}
              /\ _pawn_attacks_square(b, square, piece.color)
              /\ ~_pawn_attacks_square(b, square, Opponent(piece.color))
             THEN Sign(piece.color) * (IF piece.kind = "N" THEN 3600 ELSE 2400)
             ELSE 0
      mid_score == SumSeq([i \in 1..Len(occupied) |-> Bonus(occupied[i])])
  IN <<mid_score, mid_score \div 2>>

_START_MINOR_SQUARES(color) ==
  IF color = "white" THEN {<<7, 1>>, <<7, 6>>, <<7, 2>>, <<7, 5>>}
  ELSE {<<0, 1>>, <<0, 6>>, <<0, 2>>, <<0, 5>>}

_CASTLED_KING_SQUARES == {<<7, 6>>, <<7, 2>>, <<0, 6>>, <<0, 2>>}

\* _development_and_castling: <<mid_score, mid_score * 0.3>>; opening_weight is
\* (TOTAL_PHASE - phase) / TOTAL_PHASE.
_development_and_castling(b) ==
  LET opening_weight == TOTAL_PHASE - _game_phase(b)
      Of(color) ==
        LET undeveloped == {square \in _START_MINOR_SQUARES(color) :
                              ~(/\ get_piece(b, square).color = color
                                /\ get_piece(b, square).kind \in {"N", "B"})}
            queen_home == IF color = "white" THEN <<7, 3>> ELSE <<0, 3>>
        IN Sign(color)
             * (80 * Cardinality(undeveloped)
                + (IF _king_position(b, color) \in _CASTLED_KING_SQUARES THEN 250 ELSE 0)
                - (IF get_piece(b, queen_home) = Piece("Q", color) THEN 0 ELSE 80))
      mid_score == opening_weight * (Of("white") + Of("black"))
  IN IF opening_weight = 0 THEN <<0, 0>> ELSE <<mid_score, (mid_score * 3) \div 10>>

\* A term that counts the same in the middle game and in the endgame.
InBoth(term) == <<term, term>>

\* The sum of the <<mid, end>> terms, weighted by the phase of the game.
Tapered(phase, terms) ==
  phase * SumSeq([i \in 1..Len(terms) |-> terms[i][1]])
    + (TOTAL_PHASE - phase) * SumSeq([i \in 1..Len(terms) |-> terms[i][2]])

\* evaluation.evaluate_board, imported by the engine as _static_evaluation
_static_evaluation(b) ==
  Tapered(_game_phase(b),
          <<_material_and_position(b), king_safety(b), InBoth(pawn_structure(b)),
            InBoth(_minor_centralization(b)), _mobility(b), _outpost_squares(b),
            _development_and_castling(b)>>)

_pseudo_legal_move_count(b, color) ==
  LET occupied == iter_pieces(b)
  IN SumSeq([i \in 1..Len(occupied) |->
       IF PieceAtIndex(b, occupied[i]).color = color
         THEN Len(_generate_pseudo_moves_for_piece(
                    b, <<occupied[i] \div 8, occupied[i] % 8>>, PieceAtIndex(b, occupied[i])))
         ELSE 0])

\* _mobility_score: 0.1 * (white_moves - black_moves).  mobility_counts is
\* << >> for None or <<color, n>> for {color: n}; a missing count is the
\* number of pseudo-legal moves.
_mobility_score(b, mobility_counts) ==
  LET Count(color) ==
        IF mobility_counts # << >> /\ mobility_counts[1] = color THEN mobility_counts[2]
        ELSE _pseudo_legal_move_count(b, color)
  IN 57600 * (Count("white") - Count("black"))

\* engine.evaluate_board(board, mobility_counts)
evaluate_board(b, mobility_counts) ==
  _static_evaluation(b) + _mobility_score(b, mobility_counts)

----------------------------------------------------------------------------
(* The search below the root, statement by statement (ai/engine.py).  A call *)
(* takes and returns the objects the code passes by reference, as one        *)
(* record st: the board, the node counter, the transposition table, the      *)
(* killer moves and the history scores.  The wall clock is the number of     *)
(* polls of time.time() >= deadline that still answer False: deadline is     *)
(* << >> when no poll ever answers True and <<k>> when the first k polls     *)
(* answer False and every later one True.  st also keeps a record of what    *)
(* the call did: the null moves tried, the changes of the history scores,    *)
(* the table entries written by _quiescence and the table entries _minimax   *)
(* returned.  A function of the code is a chain of operators here, one for   *)
(* each stretch between two of its calls, each handing what it computed to   *)
(* the next; they are written last stretch first.                            *)

\* float("inf"): beyond every evaluation.
Infinity == 1000000000

QUIESCENCE_DEPTH == 2

\* One pawn, in the unit of the evaluation.
OnePawn == 576000

Max(a, b) == IF a >= b THEN a ELSE b

Min(a, b) == IF a <= b THEN a ELSE b

ToSet(s) == {s[i] : i \in 1..Len(s)}

\* The objects at the start of choose_move's loop.
SearchState(b, table) ==
  [board |-> b, count |-> 0, polls |-> 0, table |-> table,
   killer_moves |-> << >>, history_scores |-> << >>,
   null_moves |-> {}, history_updates |-> {}, quiescence_entries |-> {}, accepted |-> {}]

\* TRUE of every st; asking it has TLC compute st before the step that starts
\* from it rather than in the middle of that step.
Evaluated(st) == st.count >= 0

\* time.time() >= deadline, asked in state st
TimeUp(st, deadline) == deadline # << >> /\ st.polls >= deadline[1]

\* st after that poll
Polled(st, deadline) ==
  IF deadline = << >> THEN st ELSE [st EXCEPT !.polls = st.polls + 1]

\* node_counter["count"] += 1
Counted(st) == [st EXCEPT !.count = st.count + 1]

\* The two budget tests at the head of _minimax and _quiescence: the deadline
\* has passed, or the counter, once increased, is above max_nodes.
Stopped(st, max_nodes, deadline) ==
  TimeUp(st, deadline) \/ (max_nodes # << >> /\ st.count + 1 > max_nodes[1])

\* st as the test that stopped the node leaves it
AsStopped(st, deadline) ==
  IF TimeUp(st, deadline) THEN Polled(st, deadline) ELSE Counted(Polled(st, deadline))

WithBoard(st, b) == [st EXCEPT !.board = b]

\* board.apply_move(move)
Applied(st, move) == [st EXCEPT !.board = apply_move(st.board, move)]

\* board.undo() after the call that gave result
Undone(result) == [result EXCEPT !.st = [@ EXCEPT !.board = undo(@)]]

\* The static evaluation from the maximizing side's perspective.
base_score(b, maximizing_color, mobility_counts) ==
  IF maximizing_color = "white" THEN evaluate_board(b, mobility_counts)
  ELSE 0 - evaluate_board(b, mobility_counts)

\* A node cut short by a budget returns the static evaluation.
CutShort(st, maximizing_color) ==
  [score |-> base_score(st.board, maximizing_color, << >>), st |-> st]

\* _terminal_score in the unit of the evaluation
terminal_score(b, player, maximizing_color, legal_moves) ==
  LET terminal == _terminal_score(b, player, maximizing_color, legal_moves)
  IN IF terminal = << >> THEN << >>
     ELSE IF terminal[1] = PosInf THEN Some(Infinity)
     ELSE IF terminal[1] = NegInf THEN Some(0 - Infinity)
     ELSE Some(0)

\* EXACT, or a bound when the value left the original window
Flag(value, alpha_original, beta_original) ==
  IF value <= alpha_original THEN UPPERBOUND
  ELSE IF value >= beta_original THEN LOWERBOUND
  ELSE EXACT

\* st with the table after a store, noting the entry when _quiescence wrote it.
WithTable(st, table, key, quiescent) ==
  LET written == TranspositionTable_probe(table, key)
  IN [st EXCEPT
        !.table = table,
        !.quiescence_entries =
          IF quiescent /\ written # << >> /\ written[1].age = st.table._counter
            THEN @ \cup {<<key, written[1].age>>} ELSE @]

\* tt_store(transposition_table, tt_key, depth, value, flag, best_move) at the
\* end of the node whose loop gave looped.
NodeStored(looped, tt_key, depth, alpha_original, beta_original, quiescent) ==
  [score |-> looped.score,
   st |-> WithTable(looped.st,
                    store(looped.st.table, tt_key, depth, looped.score,
                          Flag(looped.score, alpha_original, beta_original),
                          IF quiescent THEN NoMove ELSE looped.best_move),
                    tt_key, quiescent)]

\* The rest of _is_quiescence_candidate once order_score is computed.
candidate_scored(b, move, next_color, order_score) ==
  IF order_score[1] = 1
    THEN [keep |-> order_score[2] >= 0, order_score |-> order_score, board |-> b]
  ELSE IF move.promotion # None
    THEN [keep |-> TRUE, order_score |-> order_score, board |-> b]
  ELSE [keep |-> in_check(apply_move(b, move), next_color), order_score |-> order_score,
        board |-> undo(apply_move(b, move))]

\* _is_quiescence_candidate: whether the move is kept, its order score, and
\* the board after the apply_move and undo of the test for check.
_is_quiescence_candidate(b, move, next_color) ==
  candidate_scored(b, move, next_color, _move_order_score(b, move, << >>, << >>, 0))

\* noisy_moves once the move legal_moves[k] is tested and the later ones are.
noisy_joined(tested, move, rest) ==
  IF tested.keep
    THEN [moves |-> <<move>> \o rest.moves, keys |-> <<tested.order_score>> \o rest.keys,
          board |-> rest.board]
    ELSE rest

RECURSIVE noisy_moves(_, _, _, _)

noisy_tested(tested, legal_moves, k, next_color) ==
  noisy_joined(tested, legal_moves[k], noisy_moves(tested.board, legal_moves, k + 1, next_color))

\* The loop that collects noisy_moves, from legal_moves[k] on.
noisy_moves(b, legal_moves, k, next_color) ==
  IF k > Len(legal_moves) THEN [moves |-> << >>, keys |-> << >>, board |-> b]
  ELSE noisy_tested(_is_quiescence_candidate(b, legal_moves[k], next_color), legal_moves, k,
                    next_color)

RECURSIVE _quiescence(_, _, _, _, _, _, _, _)
RECURSIVE quiescence_loop(_, _, _, _, _, _, _, _, _, _, _)

\* One pass of the loop of _quiescence after its recursive call and undo.
quiescence_step(child, moves, k, value, current_color, maximizing_color, alpha, beta, q_depth, max_nodes, deadline) ==
  LET maximizing == current_color = maximizing_color
      new_value == IF maximizing THEN Max(value, child.score) ELSE Min(value, child.score)
      new_alpha == IF maximizing THEN Max(alpha, new_value) ELSE alpha
      new_beta == IF maximizing THEN beta ELSE Min(beta, new_value)
  IN IF new_alpha >= new_beta THEN [score |-> new_value, st |-> child.st]
     ELSE quiescence_loop(child.st, moves, k + 1, new_value, current_color, maximizing_color,
                          new_alpha, new_beta, q_depth, max_nodes, deadline)

\* The loop of _quiescence over the sorted noisy moves, from moves[k] on:
\* the value and the objects when the loop is left.
quiescence_loop(st, moves, k, value, current_color, maximizing_color, alpha, beta, q_depth, max_nodes, deadline) ==
  IF k > Len(moves) \/ ~Evaluated(st) THEN [score |-> value, st |-> st]
  ELSE quiescence_step(
         Undone(_quiescence(Applied(st, moves[k]), Opponent(current_color), maximizing_color,
                            alpha, beta, q_depth - 1, max_nodes, deadline)),
         moves, k, value, current_color, maximizing_color, alpha, beta, q_depth, max_nodes,
         deadline)

\* _quiescence from the collection of the noisy moves on.
quiescence_noisy(st, noisy, stand_pat, tt_key, current_color, maximizing_color, alpha, beta, q_depth, max_nodes, deadline) ==
  IF noisy.moves = << >> THEN [score |-> stand_pat, st |-> WithBoard(st, noisy.board)]
  ELSE NodeStored(quiescence_loop(WithBoard(st, noisy.board),
                              SortedDescending(noisy.moves, noisy.keys), 1, stand_pat,
                              current_color, maximizing_color,
                              IF current_color = maximizing_color
                                THEN Max(alpha, stand_pat) ELSE alpha,
                              IF current_color = maximizing_color
                                THEN beta ELSE Min(beta, stand_pat),
                              q_depth, max_nodes, deadline),
              tt_key, q_depth, alpha, beta, TRUE)

\* _quiescence from the probe of the table on.
quiescence_probed(st, legal_moves, stand_pat, tt_key, current_color, maximizing_color, alpha, beta, q_depth, max_nodes, deadline) ==
  LET tt_entry == probe(st.table, tt_key, q_depth, alpha, beta)
      maximizing == current_color = maximizing_color
  IN IF tt_entry # << >> THEN [score |-> tt_entry[1].score, st |-> st]
     ELSE IF maximizing /\ stand_pat >= beta THEN [score |-> stand_pat, st |-> st]
     ELSE IF ~maximizing /\ stand_pat <= alpha THEN [score |-> stand_pat, st |-> st]
     ELSE quiescence_noisy(st, noisy_moves(st.board, legal_moves, 1, Opponent(current_color)),
                           stand_pat, tt_key, current_color, maximizing_color, alpha, beta,
                           q_depth, max_nodes, deadline)

\* _quiescence once stand_pat is computed.
quiescence_stand_pat(st, legal_moves, stand_pat, current_color, maximizing_color, alpha, beta, q_depth, max_nodes, deadline) ==
  IF q_depth <= 0 THEN [score |-> stand_pat, st |-> st]
  ELSE quiescence_probed(st, legal_moves, stand_pat,
                         KeyNumber(zobrist_hash(st.board, current_color)), current_color,
                         maximizing_color, alpha, beta, q_depth, max_nodes, deadline)

\* _quiescence once the legal moves are generated.
quiescence_generated(st, generated, current_color, maximizing_color, alpha, beta, q_depth, max_nodes, deadline) ==
  IF generated.moves = << >>
    THEN [score |-> terminal_score(generated.board, current_color, maximizing_color,
                                   generated.moves)[1],
          st |-> WithBoard(st, generated.board)]
    ELSE quiescence_stand_pat(WithBoard(st, generated.board), generated.moves,
                              base_score(generated.board, maximizing_color,
                                         <<current_color, Len(generated.moves)>>),
                              current_color, maximizing_color, alpha, beta, q_depth, max_nodes,
                              deadline)

\* _quiescence: its result, and the objects as it leaves them.
_quiescence(st, current_color, maximizing_color, alpha, beta, q_depth, max_nodes, deadline) ==
  IF Evaluated(st) /\ Stopped(st, max_nodes, deadline)
    THEN CutShort(AsStopped(st, deadline), maximizing_color)
    ELSE quiescence_generated(Counted(Polled(st, deadline)),
                              generate_legal_moves(st.board, current_color), current_color,
                              maximizing_color, alpha, beta, q_depth, max_nodes, deadline)

\* Variant of _apply_null_move_allowed that lets depth 1 pass.
_apply_null_move_allowed_at_depth_one(b, depth, current_color) ==
  LET own == {idx \in 0..63 : PieceAtIndex(b, idx).color = current_color}
      pawns == Cardinality({idx \in own : PieceAtIndex(b, idx).kind = "P"})
      non_pawn == Cardinality({idx \in own : PieceAtIndex(b, idx).kind \notin {"P", "K"}})
  IN IF depth < 1 THEN FALSE
     ELSE IF in_check(b, current_color) THEN FALSE
     ELSE ~(non_pawn = 0 /\ pawns <= 4)

\* _apply_null_move_allowed of a _minimax call
_apply_null_move_allowed(b, depth, current_color) ==
  LET own == {idx \in 0..63 : PieceAtIndex(b, idx).color = current_color}
      pawns == Cardinality({idx \in own : PieceAtIndex(b, idx).kind = "P"})
      non_pawn == Cardinality({idx \in own : PieceAtIndex(b, idx).kind \notin {"P", "K"}})
  IN IF depth < 2 THEN FALSE
     ELSE IF in_check(b, current_color) THEN FALSE
     ELSE ~(non_pawn = 0 /\ pawns <= 4)

\* beta_window - 1, one pawn below; float("inf") - 1 is float("inf")
OneBelow(beta_window) ==
  IF beta_window = Infinity \/ beta_window = 0 - Infinity THEN beta_window
  ELSE beta_window - OnePawn

\* killers.remove(move) when present, killers.append(move), killers[-2:]
KillersWith(killers, move) ==
  LET appended == Append(SelectSeq(killers, LAMBDA m : m # move), move)
  IN IF Len(appended) > 2 THEN SubSeq(appended, Len(appended) - 1, Len(appended))
     ELSE appended

\* The dictionary of killer moves as _move_order_score reads it.
KillerSets(killer_moves) ==
  [d \in DOMAIN killer_moves |-> ToSet(killer_moves[d])]

\* sorted(legal_moves, key=_order_score, reverse=True) with the stored best
\* move, when it is a legal move, popped before and inserted first.
Ordered(b, legal_moves, ordering_entry, killer_moves, history_scores, depth) ==
  LET popped == tt_best_move(legal_moves, ordering_entry)
      rest == Popped(legal_moves, popped)
      keys == [i \in 1..Len(rest) |->
                 _move_order_score(b, rest[i], KillerSets(killer_moves), history_scores,
                                   depth)]
  IN popped \o SortedDescending(rest, keys)

\* history_scores[history_key] += depth * depth, with the change noted.
WithHistory(st, move, depth, cutoff) ==
  LET history_key == <<move.start, move.end, move.promotion>>
      history_before == IF history_key \in DOMAIN st.history_scores
                          THEN st.history_scores[history_key] ELSE 0
  IN [st EXCEPT
        !.history_scores = (history_key :> (history_before + depth * depth)) @@ @,
        !.history_updates = @ \cup {[move |-> move, depth |-> depth, cutoff |-> cutoff]}]

\* killer_moves[depth] with the move that cut off
WithKiller(st, move, depth) ==
  [st EXCEPT
     !.killer_moves =
       (depth :> KillersWith(IF depth \in DOMAIN st.killer_moves
                               THEN st.killer_moves[depth] ELSE << >>, move)) @@ @]

\* The history and killer tables after a move of the loop of _minimax: the
\* history changes when the move raised the value, the killers when it cut off.
Noted(st, move, depth, is_capture, better, cutoff) ==
  IF is_capture THEN st
  ELSE IF better /\ cutoff THEN WithKiller(WithHistory(st, move, depth, cutoff), move, depth)
  ELSE IF better THEN WithHistory(st, move, depth, cutoff)
  ELSE IF cutoff THEN WithKiller(st, move, depth)
  ELSE st

\* The late-move reduction of the move at index idx of the loop of _minimax.
Reduction(depth, idx, is_capture, is_promotion, gives_check) ==
  IF depth >= 3 /\ idx >= 3 /\ ~is_capture /\ ~is_promotion /\ ~gives_check
    THEN (IF depth < 5 THEN 1 ELSE 2)
    ELSE 0

RECURSIVE _minimax_node(_, _, _, _, _, _, _, _)
RECURSIVE minimax_loop(_, _, _, _, _, _, _, _, _, _, _, _)

\* One pass of the loop of _minimax after the search of the move and undo.
minimax_step(is_capture, child, moves, k, value, best_move_found, depth, current_color, maximizing_color, alpha, beta, max_nodes, deadline) ==
  LET maximizing == current_color = maximizing_color
      better == IF maximizing THEN child.score > value ELSE child.score < value
      new_value == IF better THEN child.score ELSE value
      new_best == IF better THEN moves[k] ELSE best_move_found
      new_alpha == IF maximizing THEN Max(alpha, new_value) ELSE alpha
      new_beta == IF maximizing THEN beta ELSE Min(beta, new_value)
      cutoff == new_alpha >= new_beta
      noted == Noted(child.st, moves[k], depth, is_capture, better, cutoff)
  IN IF cutoff THEN [score |-> new_value, best_move |-> new_best, st |-> noted]
     ELSE minimax_loop(noted, moves, k + 1, new_value, new_best, depth, current_color,
                       maximizing_color, new_alpha, new_beta, max_nodes, deadline)

\* The full-depth search again when a reduced search beat the window.
minimax_researched(is_capture, reduction, first, moves, k, value, best_move_found, depth, current_color, maximizing_color, alpha, beta, max_nodes, deadline) ==
  minimax_step(is_capture,
               Undone(IF reduction # 0
                         /\ (IF current_color = maximizing_color
                               THEN first.score > alpha ELSE first.score < beta)
                        THEN _minimax_node(first.st, depth - 1, Opponent(current_color),
                                           maximizing_color, alpha, beta, max_nodes, deadline)
                        ELSE first),
               moves, k, value, best_move_found, depth, current_color, maximizing_color,
               alpha, beta, max_nodes, deadline)

\* The search of the move applied, at the depth the reduction leaves.
minimax_reduced(is_capture, reduction, applied, moves, k, value, best_move_found, depth, current_color, maximizing_color, alpha, beta, max_nodes, deadline) ==
  minimax_researched(is_capture, reduction,
                     _minimax_node(applied, Max(0, depth - 1 - reduction),
                                   Opponent(current_color), maximizing_color, alpha, beta,
                                   max_nodes, deadline),
                     moves, k, value, best_move_found, depth, current_color,
                     maximizing_color, alpha, beta, max_nodes, deadline)

\* The loop of _minimax over the ordered moves, from moves[k] on: the value,
\* the best move found and the objects when the loop is left.
minimax_loop(st, moves, k, value, best_move_found, depth, current_color, maximizing_color, alpha, beta, max_nodes, deadline) ==
  IF k > Len(moves) \/ ~Evaluated(st)
    THEN [score |-> value, best_move |-> best_move_found, st |-> st]
    ELSE minimax_reduced(_captured_piece(st.board, moves[k]) # NoPiece,
                         Reduction(depth, k - 1, _captured_piece(st.board, moves[k]) # NoPiece,
                                   moves[k].promotion # None,
                                   in_check(apply_move(st.board, moves[k]),
                                            Opponent(current_color))),
                         Applied(st, moves[k]), moves, k, value, best_move_found, depth,
                         current_color, maximizing_color, alpha, beta, max_nodes, deadline)

\* _minimax from the probe of the table on, tt_key being the key of the node.
minimax_keyed(st, legal_moves, tt_key, depth, current_color, maximizing_color, alpha, beta, max_nodes, deadline) ==
  LET tt_entry == probe(st.table, tt_key, depth, alpha, beta)
  IN IF tt_entry # << >>
       THEN [score |-> tt_entry[1].score,
             st |-> [st EXCEPT
                       !.accepted = @ \cup {[entry |-> tt_entry[1], depth |-> depth]}]]
       ELSE NodeStored(minimax_loop(st,
                                Ordered(st.board, legal_moves,
                                        TranspositionTable_probe(st.table, tt_key),
                                        st.killer_moves, st.history_scores, depth),
                                1,
                                IF current_color = maximizing_color
                                  THEN 0 - Infinity ELSE Infinity,
                                NoMove, depth, current_color, maximizing_color, alpha, beta,
                                max_nodes, deadline),
                   tt_key, depth, alpha, beta, FALSE)

\* _minimax after null-move pruning did not return.
minimax_probed(st, legal_moves, depth, current_color, maximizing_color, alpha, beta, max_nodes, deadline) ==
  minimax_keyed(st, legal_moves, KeyNumber(zobrist_hash(st.board, current_color)), depth,
                current_color, maximizing_color, alpha, beta, max_nodes, deadline)

\* _minimax once the null move is searched: its score returns when it is
\* outside the window on the side of the player to move.
minimax_after_null(null_move, legal_moves, depth, current_color, maximizing_color, alpha, beta, max_nodes, deadline) ==
  IF current_color = maximizing_color /\ null_move.score >= beta THEN null_move
  ELSE IF current_color # maximizing_color /\ null_move.score <= alpha THEN null_move
  ELSE minimax_probed(null_move.st, legal_moves, depth, current_color, maximizing_color,
                      alpha, beta, max_nodes, deadline)

\* Variant of _null_move_search that restores nothing after its search.
null_move_left_as_searched(searched, b) == searched

\* What _null_move_search restores after its search.
null_move_restored(searched, b) ==
  [searched EXCEPT
     !.st = [@ EXCEPT
               !.board = [@ EXCEPT !.en_passant_square = b.en_passant_square,
                                   !.halfmove_clock = b.halfmove_clock,
                                   !.castling_rights = b.castling_rights]]]

\* The board once the move is passed: no en-passant square, one more halfmove.
null_move_passed(b) ==
  [b EXCEPT !.en_passant_square = NoSquare, !.halfmove_clock = b.halfmove_clock + 1]

\* The record of the null moves with this one: the board it was tried on, the
\* depth and the player of the node, and whether the board is that board
\* again when _null_move_search returns.
null_move_noted(searched, b, depth, current_color) ==
  [searched EXCEPT
     !.st = [@ EXCEPT
               !.null_moves = @ \cup {[board |-> b, depth |-> depth,
                                       color |-> current_color,
                                       restored |-> searched.st.board = b]}]]

\* _null_move_search(beta_window) of a _minimax call
_null_move_search(st, depth, current_color, maximizing_color, beta_window, max_nodes, deadline) ==
  null_move_noted(
    null_move_restored(
      _minimax_node(WithBoard(st, null_move_passed(st.board)),
                    Max(0, depth - 1 - (IF depth > 5 THEN 2 ELSE 1)),
                    Opponent(current_color), maximizing_color, OneBelow(beta_window),
                    beta_window, max_nodes, deadline),
      st.board),
    st.board, depth, current_color)

\* _minimax once the legal moves are generated.
minimax_generated(st, generated, depth, current_color, maximizing_color, alpha, beta, max_nodes, deadline) ==
  IF generated.moves = << >>
    THEN [score |-> terminal_score(generated.board, current_color, maximizing_color,
                                   generated.moves)[1],
          st |-> WithBoard(st, generated.board)]
  ELSE IF depth = 0
    THEN _quiescence(WithBoard(st, generated.board), current_color, maximizing_color, alpha,
                     beta, QUIESCENCE_DEPTH, max_nodes, deadline)
  ELSE IF _apply_null_move_allowed(generated.board, depth, current_color)
    THEN minimax_after_null(
           _null_move_search(WithBoard(st, generated.board), depth, current_color,
                             maximizing_color, beta, max_nodes, deadline),
           generated.moves, depth, current_color, maximizing_color, alpha, beta, max_nodes,
           deadline)
  ELSE minimax_probed(WithBoard(st, generated.board), generated.moves, depth, current_color,
                      maximizing_color, alpha, beta, max_nodes, deadline)

\* _minimax: its result, and the objects as it leaves them.
_minimax_node(st, depth, current_color, maximizing_color, alpha, beta, max_nodes, deadline) ==
  IF Evaluated(st) /\ Stopped(st, max_nodes, deadline)
    THEN CutShort(AsStopped(st, deadline), maximizing_color)
    ELSE minimax_generated(Counted(Polled(st, deadline)),
                           generate_legal_moves(st.board, current_color), depth,
                           current_color, maximizing_color, alpha, beta, max_nodes, deadline)

RECURSIVE root_loop(_, _, _, _, _, _, _, _, _)

\* One pass of the root loop after the search of the move and undo.
root_step(child, legal_moves, k, depth_best_move, depth_best_score, current_depth, color, max_nodes, deadline) ==
  LET better == depth_best_move = NoMove \/ child.score > depth_best_score
  IN root_loop(child.st, legal_moves, k + 1,
               IF better THEN legal_moves[k] ELSE depth_best_move,
               IF better THEN child.score ELSE depth_best_score,
               current_depth, color, max_nodes, deadline)

\* The loop of choose_move over the root moves, from legal_moves[k] on: the
\* best move and score of this depth and the objects when the loop is left.
root_loop(st, legal_moves, k, depth_best_move, depth_best_score, current_depth, color, max_nodes, deadline) ==
  IF k > Len(legal_moves) \/ ~Evaluated(st)
       \/ (max_nodes # << >> /\ st.count >= max_nodes[1])
    THEN [depth_best_move |-> depth_best_move, depth_best_score |-> depth_best_score,
          st |-> st]
  ELSE IF TimeUp(st, deadline)
    THEN [depth_best_move |-> depth_best_move, depth_best_score |-> depth_best_score,
          st |-> Polled(st, deadline)]
  ELSE root_step(Undone(_minimax_node(Applied(Polled(st, deadline), legal_moves[k]),
                                      current_depth - 1, Opponent(color), color,
                                      0 - Infinity, Infinity, max_nodes, deadline)),
                 legal_moves, k, depth_best_move, depth_best_score, current_depth, color,
                 max_nodes, deadline)

RECURSIVE iterative_deepening(_, _, _, _, _, _, _, _, _, _, _)

\* The end of a pass of the iterative-deepening loop: the best move of the
\* pass, when there is one, becomes the best move and goes to the front.
iteration_ended(looped, sorted, current_depth, depth, best_move, best_score, iterations, tt_order_entry, color, max_nodes, deadline) ==
  LET found == looped.depth_best_move # NoMove
      new_best_move == IF found THEN looped.depth_best_move ELSE best_move
      new_best_score == IF found THEN looped.depth_best_score ELSE best_score
      pass == [current_depth |-> current_depth, previous |-> best_move,
               legal_moves |-> sorted, found |-> found]
      spent == max_nodes # << >> /\ looped.st.count >= max_nodes[1]
      late == ~spent /\ TimeUp(looped.st, deadline)
      ended == IF spent THEN looped.st ELSE Polled(looped.st, deadline)
  IN IF spent \/ late \/ current_depth = depth
       THEN [move |-> new_best_move, score |-> new_best_score, st |-> ended,
             iterations |-> Append(iterations, pass)]
       ELSE iterative_deepening(ended,
                                IF found THEN MoveToFront(sorted, looped.depth_best_move)
                                ELSE sorted,
                                current_depth + 1, depth, new_best_move, new_best_score,
                                Append(iterations, pass), tt_order_entry, color, max_nodes,
                                deadline)

\* A pass once the root moves are sorted.
iteration_sorted(st, sorted, current_depth, depth, best_move, best_score, iterations, tt_order_entry, color, max_nodes, deadline) ==
  iteration_ended(root_loop(st, sorted, 1, NoMove, 0 - Infinity, current_depth, color,
                            max_nodes, deadline),
                  sorted, current_depth, depth, best_move, best_score, iterations,
                  tt_order_entry, color, max_nodes, deadline)

\* The iterative-deepening loop of choose_move from the pass of current_depth
\* on.  iterations records, pass by pass, the best move before the pass and
\* the root moves in the order of the pass.  The order scores of the pass of
\* the last depth are those the sort before the loop computed and kept, when
\* no killer move and no history score was known.
iterative_deepening(st, legal_moves, current_depth, depth, best_move, best_score, iterations, tt_order_entry, color, max_nodes, deadline) ==
  iteration_sorted(st,
                   Ordered(st.board, legal_moves, tt_order_entry,
                           IF current_depth = depth THEN << >> ELSE st.killer_moves,
                           IF current_depth = depth THEN << >> ELSE st.history_scores,
                           current_depth),
                   current_depth, depth, best_move, best_score, iterations, tt_order_entry,
                   color, max_nodes, deadline)

\* choose_move once the root moves are sorted for the first time.
choose_move_ordered(st, legal_moves, tt_order_entry, depth, color, max_nodes, deadline) ==
  IF legal_moves = << >>
    THEN [move |-> NoMove, score |-> 0 - Infinity, st |-> st, iterations |-> << >>]
  ELSE IF max_nodes # << >> /\ max_nodes[1] < Len(legal_moves)
    THEN [move |-> legal_moves[1], score |-> 0 - Infinity, st |-> st, iterations |-> << >>]
  ELSE iterative_deepening(st, legal_moves, 1, depth, NoMove, 0 - Infinity, << >>,
                           tt_order_entry, color, max_nodes, deadline)

\* choose_move once the root key is probed.
choose_move_probed(b, legal_moves, tt_order_entry, depth, color, max_nodes, deadline, table) ==
  choose_move_ordered(SearchState(b, table),
                      Ordered(b, legal_moves, tt_order_entry, << >>, << >>, depth),
                      tt_order_entry, depth, color, max_nodes, deadline)

\* choose_move once the legal moves are generated.
choose_move_generated(generated, depth, color, max_nodes, deadline, table) ==
  choose_move_probed(generated.board, generated.moves,
                     TranspositionTable_probe(table,
                                              KeyNumber(zobrist_hash(generated.board, color))),
                     depth, color, max_nodes, deadline, table)

\* Variant of choose_move that sets the deadline whatever time_limit_ms is.
choose_move_call_always_timed(b, depth, color, max_nodes, time_limit_ms, expiry, table) ==
  choose_move_generated(generate_legal_moves(from_board(b), color), depth, color, max_nodes,
                        expiry, table)

\* choose_move(board, depth, color, max_nodes, time_limit_ms, transposition_table)
\* as one call, with a table given by the caller: the move it returns, the
\* score and node count of its diagnostics, and the objects as it leaves them.
\* expiry is what the clock does once a deadline is set.
choose_move_call(b, depth, color, max_nodes, time_limit_ms, expiry, table) ==
  choose_move_generated(generate_legal_moves(from_board(b), color), depth, color, max_nodes,
                        IF time_limit_ms # << >> /\ time_limit_ms[1] > 0
                          THEN expiry ELSE << >>,
                        table)

----------------------------------------------------------------------------
(* Calls of choose_move followed to their end, on positions set up by hand: *)
(* the mate in one of tests/test_ai.py, a pawn ending where two promotions  *)
(* mate at once, a blocked pawn ending where Black has a king and five      *)
(* pawns, and a king and knight against a king with Black to move.  The     *)
(* caller passes an empty table of its own and finds in it what the search  *)
(* stored.                                                                  *)

\* tests/test_ai.py, test_choose_move_find_mate_in_one
MateInOnePieces ==
  { <<<<"h", "8">>, "K", "black">>, <<<<"h", "6">>, "K", "white">>,
    <<<<"f", "7">>, "Q", "white">> }

\* a7-a8=Q and a7-a8=R mate at once; the king's step to g1 is ordered first.
TwoMatesPieces ==
  { <<<<"h", "1">>, "K", "white">>, <<<<"a", "7">>, "P", "white">>,
    <<<<"h", "6">>, "P", "white">>, <<<<"e", "6">>, "P", "white">>,
    <<<<"h", "8">>, "K", "black">>, <<<<"h", "7">>, "P", "black">> }

\* Every pawn is blocked and none can capture; Black has no piece but the king.
PawnWallPieces ==
  { <<<<"b", "1">>, "K", "white">>, <<<<"b", "8">>, "K", "black">>,
    <<<<"a", "6">>, "P", "white">>, <<<<"a", "7">>, "P", "black">>,
    <<<<"c", "6">>, "P", "white">>, <<<<"c", "7">>, "P", "black">>,
    <<<<"e", "6">>, "P", "white">>, <<<<"e", "7">>, "P", "black">>,
    <<<<"g", "6">>, "P", "white">>, <<<<"g", "7">>, "P", "black">>,
    <<<<"h", "4">>, "P", "white">>, <<<<"h", "5">>, "P", "black">> }

\* Black, to move, has the king alone; White has a knight beside the king.
KnightCornerPieces ==
  { <<<<"a", "1">>, "K", "white">>, <<<<"b", "1">>, "N", "white">>,
    <<<<"h", "8">>, "K", "black">> }

InitEngine ==
  \/ SetUpGame(MateInOnePieces, NoRights, "white")
  \/ SetUpGame(TwoMatesPieces, NoRights, "white")
  \/ SetUpGame(PawnWallPieces, NoRights, "white")
  \/ SetUpGame(KnightCornerPieces, NoRights, "black")

MaxDepthEngine == 3

\* The table the caller passes: TranspositionTable(size=64, bucket_size=4).
EngineTableSize == 64

EngineBucketSize == 4

\* The largest max_nodes a caller passes.
MaxNodesEngine == 20

\* Polls of the clock that may pass before the deadline does.
MaxPolls == 12

\* The calls made, as <<depth, max_nodes, time_limit_ms, expiry>>: no budget;
\* a node budget; a time limit whose deadline passes after some polls of the
\* clock; and, at depth 1, a time limit of zero and a deadline that never
\* passes, which set no limit to the search.
EngineCalls ==
  {<<depth, << >>, << >>, << >>>> : depth \in 1..MaxDepthEngine}
    \cup {<<depth, Some(max_nodes), << >>, << >>>> :
            depth \in 1..MaxDepthEngine,
            max_nodes \in {n \in 1..MaxNodesEngine : n % 3 = 0 \/ n = MaxNodesEngine}}
    \cup {<<depth, << >>, Some(1), Some(expiry)>> :
            depth \in 1..MaxDepthEngine, expiry \in {e \in 0..MaxPolls : e % 4 = 0}}
    \cup {<<1, << >>, Some(0), << >>>>, <<1, << >>, Some(1), << >>>>}

\* One call of choose_move by the player to move, on the position set up.
Search ==
  \E call \in EngineCalls :
    /\ outcome.op = "init"
    /\ outcome' = Outcome("choose_move_call", FALSE,
                          [depth |-> call[1], max_nodes |-> call[2],
                           time_limit_ms |-> call[3], expiry |-> call[4]],
                          choose_move_call(board, call[1], turn, call[2], call[3], call[4],
                                           TranspositionTable(EngineTableSize,
                                                              EngineBucketSize)))
    /\ transposition_table' = outcome'.returned.st.table
    /\ UNCHANGED <<board, turn, move_stack, position_counts, search>>

NextEngine == Search

SpecEngine == InitEngine /\ [][NextEngine]_vars

----------------------------------------------------------------------------
(* A caller of the transposition table alone, as tests/test_transposition.py: *)
(* a table of TableSize buckets of BucketSize entries, store and probe calls. *)

MaxStores == 3

\* Three keys of one bucket: 1, 1 + size and 1 + 2 * size.
TableKeys == {1, 1 + TableSize, 1 + 2 * TableSize}

TableScores == {-1, 0, 1}

\* The (depth, score, flag, best_move) the caller stores.
StoreCalls ==
  { <<1, 0, LOWERBOUND, NoMove>>, <<1, 1, EXACT, StoredMove>>,
    <<2, 1, EXACT, StoredMove>>, <<2, 0, UPPERBOUND, StoredMove>> }

\* store(table, key, depth, score, flag, best_move)
Store ==
  /\ transposition_table._counter < MaxStores
  /\ \E key \in TableKeys, call \in StoreCalls :
       /\ transposition_table' =
            store(transposition_table, key, call[1], call[2], call[3], call[4])
       /\ outcome' = Outcome("store", FALSE, TTEntry(key, call[1], call[2], call[3], call[4]),
                             None)
  /\ UNCHANGED <<board, turn, move_stack, position_counts, search>>

\* probe(table, key, depth, alpha, beta): the table is only read.
Probe ==
  /\ \E key \in TableKeys, depth \in 1..2, alpha \in TableScores, beta \in TableScores :
       outcome' = Outcome("probe", FALSE, << >>,
                          probe(transposition_table, key, depth, alpha, beta))
  /\ UNCHANGED <<board, turn, move_stack, position_counts, search, transposition_table>>

InitTable == NewGame

NextTable == Store \/ Probe

SpecTable == InitTable /\ [][NextTable]_vars

----------------------------------------------------------------------------
(* Properties of make/unmake and of the game driver on the hand-built       *)
(* positions (SpecSetups)                                                   *)

LegalMovesNow == generate_legal_moves(board, turn).moves

\* C1: in every position reached by legal play, applying any legal move of the
\* side to move and undoing it restores placement, castling rights, en-passant
\* square, halfmove clock and history, hence the Zobrist hash for the same side.
C1_ApplyUndoRestores ==
  LET legal == LegalMovesNow
  IN \A i \in 1..Len(legal) :
    LET after == undo(apply_move(board, legal[i]))
    IN /\ after.board = board.board
       /\ after.castling_rights = board.castling_rights
       /\ after.en_passant_square = board.en_passant_square
       /\ after.halfmove_clock = board.halfmove_clock
       /\ Len(after.history) = Len(board.history)
       /\ zobrist_hash(after, turn) = zobrist_hash(board, turn)

\* An en-passant capture is legal here, with an en-passant square to restore,
\* and making and unmaking it gives the position back.
C1_Witness ==
  /\ board.en_passant_square # NoSquare
  /\ LET legal == LegalMovesNow
     IN \E i \in 1..Len(legal) :
          /\ legal[i].is_en_passant
          /\ apply_move(board, legal[i]) # board
          /\ undo(apply_move(board, legal[i])) = board

\* C2: for either colour, no move returned by generate_legal_moves leaves that
\* colour in check once applied, and generating leaves the board as it was.
C2_LegalMovesKeepKingSafe ==
  \A c \in {"white", "black"} :
    LET generated == generate_legal_moves(board, c)
    IN /\ generated.board = board
       /\ \A i \in 1..Len(generated.moves) :
            ~in_check(apply_move(board, generated.moves[i]), c)

\* The side to move is in check and still has moves: the generator had
\* pseudo-legal moves to reject.
C2_Witness ==
  /\ in_check(board, turn)
  /\ LET legal == LegalMovesNow
     IN \E i \in 1..Len(legal) : ~in_check(apply_move(board, legal[i]), turn)

\* A legal move with the requested start and end whose promotion is the requested
\* one, an unspecified promotion standing for the queen.
HasMatch(legal, request) ==
  \E i \in 1..Len(legal) :
    /\ legal[i].start = algebraic_to_square(request[1])
    /\ legal[i].end = algebraic_to_square(request[2])
    /\ \/ legal[i].promotion = request[3]
       \/ request[3] = None /\ legal[i].promotion = "Q"

\* C3: make_move raises ValueError exactly when the side to move has no legal
\* move with the requested start, end and promotion (queen when unspecified); a
\* promotion piece named for a non-promotion, en passant included, is rejected.
C3_RaisesIffNoMatch ==
  [][outcome'.op = "make_move"
       => (outcome'.raised <=> ~HasMatch(LegalMovesNow, outcome'.request))]_vars

\* C4: a make_move call that raises leaves the board (placement, rights,
\* en-passant square, clock, history), the turn, move_stack and position_counts
\* as they were.
C4_RaiseLeavesGameUnchanged ==
  [][outcome'.op = "make_move" /\ outcome'.raised
       => /\ board' = board
          /\ turn' = turn
          /\ move_stack' = move_stack
          /\ position_counts' = position_counts]_vars

\* An illegal request was refused in the middle of a game.
C4_Witness ==
  /\ outcome.op = "make_move"
  /\ outcome.raised
  /\ outcome.returned = "ValueError"
  /\ move_stack # << >>
  /\ ~HasMatch(LegalMovesNow, outcome.request)

\* C9: Board.undo on an empty history returns None and changes nothing;
\* Game.undo on an empty move_stack changes neither board, turn nor
\* position_counts; neither raises.
C9_UndoUnderflowChangesNothing ==
  [][/\ outcome'.op = "board_undo"
        => /\ outcome'.returned = None
           /\ ~outcome'.raised
           /\ board' = board
     /\ outcome'.op = "undo" /\ move_stack = << >>
        => /\ ~outcome'.raised
           /\ board' = board
           /\ turn' = turn
           /\ move_stack' = move_stack
           /\ position_counts' = position_counts]_vars

\* Board.undo was called on a board with an empty history and castling rights
\* to lose, and returned None.
C9_Witness ==
  /\ outcome.op = "board_undo"
  /\ outcome.returned = None
  /\ board.history = << >>
  /\ board.castling_rights = <<TRUE, TRUE, TRUE, TRUE>>

----------------------------------------------------------------------------
(* Repetition counts on a new Game (Spec)                                   *)

\* The keys of the current line: the starting position, then the position after
\* each move of move_stack, White moving first.
RECURSIVE LineKeys(_, _, _, _)
LineKeys(b, turn_, moves, k) ==
  IF k > Len(moves) THEN <<position_key(b, turn_)>>
  ELSE <<position_key(b, turn_)>>
         \o LineKeys(apply_move(b, moves[k]), Opponent(turn_), moves, k + 1)

Occurrences(keys, key) == Cardinality({i \in 1..Len(keys) : keys[i] = key})

ShuffleLine ==
  LET cycle == << <<algebraic_to_square(<<"g", "1">>), algebraic_to_square(<<"f", "3">>)>>,
                  <<algebraic_to_square(<<"g", "8">>), algebraic_to_square(<<"f", "6">>)>>,
                  <<algebraic_to_square(<<"f", "3">>), algebraic_to_square(<<"g", "1">>)>>,
                  <<algebraic_to_square(<<"f", "6">>), algebraic_to_square(<<"g", "8">>)>> >>
  IN cycle \o cycle

PlayedLine == [i \in 1..Len(move_stack) |-> <<move_stack[i].start, move_stack[i].end>>]

\* C5: on a new Game, after any make_move and undo calls, position_counts gives
\* for every key the number of positions of the current line with that key;
\* is_threefold_repetition holds exactly when the current key occurs at least
\* three times; the knight shuffle played twice ends in "draw by repetition".
C5_CountsMatchCurrentLine ==
  LET keys == LineKeys(NewBoard, "white", move_stack, 1)
      current == position_key(board, turn)
  IN /\ \A key \in DOMAIN position_counts \cup {keys[i] : i \in 1..Len(keys)} :
          CountOf(position_counts, key) = Occurrences(keys, key)
     /\ is_threefold_repetition(position_counts, board, turn) <=> Occurrences(keys, current) >= 3
     /\ PlayedLine = ShuffleLine => game_status(position_counts, board, turn) = <<"draw by repetition">>

\* The knight shuffle has been played twice and the game is drawn by repetition.
C5_Witness ==
  /\ PlayedLine = ShuffleLine
  /\ CountOf(position_counts, position_key(board, turn)) = 3
  /\ game_status(position_counts, board, turn) = <<"draw by repetition">>

----------------------------------------------------------------------------
(* End of game and the halfmove clock (SpecFifty)                           *)

\* C6: is_over holds exactly when the side to move has no legal move or the
\* fifty-move draw or the threefold repetition holds; game_status is "ongoing"
\* or "<color> in check" exactly when is_over is false.
C6_OverIffNoMovesOrDraw ==
  LET over == is_over(position_counts, board, turn)
      status == game_status(position_counts, board, turn)
  IN /\ over <=> \/ Len(LegalMovesNow) = 0
                 \/ is_fifty_move_draw(board)
                 \/ is_threefold_repetition(position_counts, board, turn)
     /\ (status = <<"ongoing">> \/ \E c \in {"white", "black"} : status = <<c, "in check">>)
          <=> ~over

\* The side to move is stalemated, no draw by count holds, and the game is over.
C6_Witness ==
  /\ ~in_check(board, turn)
  /\ Len(LegalMovesNow) = 0
  /\ ~is_fifty_move_draw(board)
  /\ ~is_threefold_repetition(position_counts, board, turn)
  /\ is_over(position_counts, board, turn)

FoolsMate ==
  << <<algebraic_to_square(<<"f", "2">>), algebraic_to_square(<<"f", "3">>)>>,
     <<algebraic_to_square(<<"e", "7">>), algebraic_to_square(<<"e", "5">>)>>,
     <<algebraic_to_square(<<"g", "2">>), algebraic_to_square(<<"g", "4">>)>>,
     <<algebraic_to_square(<<"d", "8">>), algebraic_to_square(<<"h", "4">>)>> >>

\* C7: game_status is "<turn> in checkmate" exactly when the side to move is in
\* check without a legal move, whatever draw holds besides, and is_over is then
\* true; after f2-f3, e7-e5, g2-g4, d8-h4 from the start it is "white in checkmate".
C7_CheckmateStatus ==
  LET status == game_status(position_counts, board, turn)
      mated == in_check(board, turn) /\ Len(LegalMovesNow) = 0
  IN /\ status = <<turn, "in checkmate">> <=> mated
     /\ mated => is_over(position_counts, board, turn)
     /\ PlayedLine = FoolsMate => status = <<"white", "in checkmate">>

\* A mate delivered when the fifty-move count has already run out.
C7_Witness ==
  /\ is_fifty_move_draw(board)
  /\ in_check(board, turn)
  /\ game_status(position_counts, board, turn) = <<turn, "in checkmate">>
  /\ is_over(position_counts, board, turn)

\* The number of moves at the end of the history since the last pawn move or capture.
RECURSIVE TrailingQuiet(_)
TrailingQuiet(history) ==
  IF history = << >> THEN 0
  ELSE LET last == history[Len(history)]
       IN IF last.moved_piece.kind = "P" \/ last.captured # NoPiece
            THEN 0
            ELSE 1 + TrailingQuiet(SubSeq(history, 1, Len(history) - 1))

\* C8: halfmove_clock is never negative and equals the number of latest applied
\* moves since the last pawn move or capture; is_fifty_move_draw holds exactly
\* when that number is at least 100.
C8_ClockCountsQuietMoves ==
  /\ board.halfmove_clock >= 0
  /\ board.halfmove_clock = TrailingQuiet(board.history)
  /\ is_fifty_move_draw(board) <=> TrailingQuiet(board.history) >= 100

\* The hundredth ply in a row without pawn move or capture has just been played.
C8_Witness ==
  /\ TrailingQuiet(board.history) = 100
  /\ board.halfmove_clock = 100
  /\ is_fifty_move_draw(board)

----------------------------------------------------------------------------
(* The move choose_move returns (SpecSearch)                                *)

\* C10: whenever the colour has a legal move, choose_move returns one of its
\* legal moves, whatever depth >= 1, max_nodes and time budget it is given; it
\* returns None only when the colour has no legal move.
C10_ReturnsLegalMove ==
  search.pc = "done" =>
    LET legal == generate_legal_moves(board, search.color).moves
    IN IF legal = << >>
         THEN search.result = NoMove
         ELSE \E i \in 1..Len(legal) : legal[i] = search.result

----------------------------------------------------------------------------
(* The stored best move at the root *)

\* The entries held under key, wherever they are in the table.
Held(table, key) ==
  {e \in UNION {{table._table[i][j] : j \in 1..Len(table._table[i])} :
                  i \in DOMAIN table._table} : e.key = key}

\* choose_move was called with a table holding, under the key of the position
\* on the board, an entry whose best move is legal, and with max_nodes below
\* the number of legal moves.
StoredMoveCase(legal) ==
  /\ outcome.op = "choose_move"
  /\ outcome.request[4] # << >>
  /\ outcome.request[2] # << >>
  /\ outcome.request[2][1] < Len(legal)
  /\ \E e \in Held(outcome.request[4][1], KeyNumber(zobrist_hash(board, turn))) :
       \E i \in 1..Len(legal) : legal[i] = e.best_move

\* Claim C11: when the table handed to choose_move holds, under the Zobrist
\* key of the root position, an entry whose best_move is a legal move of the
\* colour to play, and max_nodes is smaller than the number of legal root
\* moves, choose_move returns that best_move.
C11_StoredMoveReturned ==
  LET legal == LegalMovesNow
  IN StoredMoveCase(legal) =>
       /\ search.pc = "done"
       /\ \E e \in Held(outcome.request[4][1], KeyNumber(zobrist_hash(board, turn))) :
            search.result = e.best_move

\* The stored move was returned although the sort alone puts another move first.
C11_Witness ==
  LET legal == LegalMovesNow
  IN /\ StoredMoveCase(legal)
     /\ search.pc = "done"
     /\ search.result # RootOrder(board, legal, outcome.request[1])[1]

----------------------------------------------------------------------------
(* The transposition table *)

BucketOf(table, key) ==
  LET bucket == table._table[key % table.size]
  IN {bucket[j] : j \in 1..Len(bucket)}

\* A store call has just been made: outcome' holds its entry.
StoreStep ==
  /\ outcome'.op = "store"
  /\ transposition_table'._counter = transposition_table._counter + 1

\* The entry of the store call, with the age the call gives it.
Stored == [outcome'.request EXCEPT !.age = transposition_table._counter]

\* probe after the store gives the stored score, flag and move, for every
\* depth up to the stored one and every window.
RoundTrip ==
  \A dd \in 0..Stored.depth, alpha \in TableScores, beta \in TableScores :
    LET hit == probe(transposition_table', Stored.key, dd, alpha, beta)
    IN /\ hit # << >>
       /\ hit[1].score = Stored.score
       /\ hit[1].flag = EXACT
       /\ hit[1].best_move = Stored.best_move

\* Claim C12 as stated: whatever the table holds, store(table, key, d, score,
\* EXACT, move) followed by probe(table, key, d', alpha, beta) with d' <= d
\* gives an entry with that score, the flag EXACT and that best move.
C12_RoundTripOnAnyTable ==
  [][(StoreStep /\ Stored.flag = EXACT) => RoundTrip]_vars

\* store keeps the entry: no deeper entry is held under key and, when the
\* bucket is full of other keys, one of its entries is no deeper than d.
StoreKeeps(table, key, d) ==
  /\ \A e \in Held(table, key) : e.depth <= d
  /\ \/ Held(table, key) # {}
     \/ Cardinality(BucketOf(table, key)) < table.bucket_size
     \/ \E e \in BucketOf(table, key) : e.depth <= d

\* Claim C12, amended: when no deeper entry is held under key and, the bucket
\* being full of other keys, one of its entries is no deeper than d, then
\* store(table, key, d, score, EXACT, move) followed by probe(table, key, d',
\* alpha, beta) gives, for every d' <= d and every alpha and beta, an entry
\* with that score, the flag EXACT and that best move.
C12_RoundTripWhenStored ==
  [][(StoreStep /\ Stored.flag = EXACT
        /\ StoreKeeps(transposition_table, Stored.key, Stored.depth)) => RoundTrip]_vars

\* An exact entry has just been stored into a full bucket and probe gives it back.
C12_Witness ==
  /\ outcome.op = "store"
  /\ outcome.request.flag = EXACT
  /\ Cardinality(BucketOf(transposition_table, outcome.request.key)) =
       transposition_table.bucket_size
  /\ probe(transposition_table, outcome.request.key, outcome.request.depth, 0, 0) =
       <<[outcome.request EXCEPT !.age = transposition_table._counter - 1]>>

\* The test probe makes on a held entry e.
Usable(e, depth, alpha, beta) ==
  /\ e.depth >= depth
  /\ \/ e.flag = EXACT
     \/ e.flag = LOWERBOUND /\ e.score >= beta
     \/ e.flag = UPPERBOUND /\ e.score <= alpha

\* Claim C13: probe(table, key, depth, alpha, beta) returns the entry held
\* under key if and only if there is one, its depth is >= depth and its flag
\* is EXACT, or LOWERBOUND with score >= beta, or UPPERBOUND with score <=
\* alpha; otherwise it returns None.  (probe only reads the table: the Probe
\* step leaves transposition_table as it is.)
C13_ProbeHitsIffUsable ==
  \A key \in TableKeys, depth \in 0..3, alpha \in TableScores, beta \in TableScores :
    LET hit == probe(transposition_table, key, depth, alpha, beta)
        usable == {e \in Held(transposition_table, key) : Usable(e, depth, alpha, beta)}
    IN IF usable = {} THEN hit = << >> ELSE hit # << >> /\ hit[1] \in usable

\* A probe has just returned a lower bound, which a higher beta or a greater
\* depth would refuse.
C13_Witness ==
  /\ outcome.op = "probe"
  /\ outcome.returned # << >>
  /\ outcome.returned[1].flag = LOWERBOUND
  /\ probe(transposition_table, outcome.returned[1].key, outcome.returned[1].depth, 0, 0)
       = outcome.returned
  /\ probe(transposition_table, outcome.returned[1].key, outcome.returned[1].depth, 0, 1)
       = << >>
  /\ probe(transposition_table, outcome.returned[1].key, outcome.returned[1].depth + 1, 0, 0)
       = << >>

\* Claim C14: a store under a key already in its bucket replaces the held
\* entry if and only if the new depth is >= the held depth; otherwise the
\* buckets stay as they were (the store counter alone advances).  So the
\* depth held under a key never decreases while the key stays in the table.
C14_SameKeyDepthPreferred ==
  [][StoreStep =>
       /\ \A held \in Held(transposition_table, Stored.key) :
            IF Stored.depth >= held.depth
              THEN /\ Held(transposition_table', Stored.key) = {Stored}
                   /\ \A other \in TableKeys \ {Stored.key} :
                        Held(transposition_table', other) = Held(transposition_table, other)
              ELSE transposition_table'._table = transposition_table._table
       /\ \A key \in TableKeys :
            \A held \in Held(transposition_table, key), e \in Held(transposition_table', key) :
              e.depth >= held.depth]_vars

\* A shallower store under a held key has just been refused: the deeper
\* entry, of another flag, is still there.
C14_Witness ==
  /\ outcome.op = "store"
  /\ \E held \in Held(transposition_table, outcome.request.key) :
       /\ held.depth > outcome.request.depth
       /\ held.flag # outcome.request.flag
       /\ held.age < transposition_table._counter - 1

\* The weakest entries of a bucket: least depth, and among those the oldest.
Weakest(entries) ==
  {w \in entries :
     \A e \in entries : w.depth < e.depth \/ (w.depth = e.depth /\ w.age <= e.age)}

\* Claim C15: a store under a new key into a full bucket evicts nothing but
\* the weakest entry (least depth, then oldest), and only when the new depth
\* is >= that entry's depth; a shallower new entry is dropped.
C15_OnlyWeakestEvicted ==
  [][LET before == BucketOf(transposition_table, Stored.key)
     IN (StoreStep /\ Held(transposition_table, Stored.key) = {}
           /\ Cardinality(before) = transposition_table.bucket_size) =>
          \E w \in Weakest(before) :
            /\ Weakest(before) = {w}
            /\ IF Stored.depth >= w.depth
                 THEN BucketOf(transposition_table', Stored.key) = (before \ {w}) \cup {Stored}
                 ELSE transposition_table'._table = transposition_table._table]_vars

\* A bucket full of two entries of depth 2: a store of depth 2 under a new
\* key evicts the older of the two, a store of depth 1 is dropped.
C15_Witness ==
  \E key \in TableKeys :
    LET before == BucketOf(transposition_table, key)
    IN /\ Held(transposition_table, key) = {}
       /\ Cardinality(before) = transposition_table.bucket_size
       /\ \A e \in before : e.depth = 2
       /\ \E old \in before :
            /\ \A e \in before : old.age <= e.age
            /\ BucketOf(store(transposition_table, key, 2, 1, EXACT, StoredMove), key) =
                 (before \ {old}) \cup
                   {[TTEntry(key, 2, 1, EXACT, StoredMove)
                       EXCEPT !.age = transposition_table._counter]}
            /\ BucketOf(store(transposition_table, key, 1, 1, EXACT, StoredMove), key) = before

----------------------------------------------------------------------------
(* Castling *)

\* The rules of castling for color on one side, read off the board: the
\* right, the king out of check, the rook on its corner, nothing between
\* king and rook, and no attack on the squares the king crosses or lands on.
CastleAllowed(b, color, kingside) ==
  LET row == IF color = "white" THEN 7 ELSE 0
      right == b.castling_rights[(IF color = "white" THEN 0 ELSE 2) + (IF kingside THEN 1 ELSE 2)]
      corner == <<row, IF kingside THEN 7 ELSE 0>>
      between == IF kingside THEN {5, 6} ELSE {1, 2, 3}
      crossed == IF kingside THEN {5, 6} ELSE {3, 2}
  IN /\ right
     /\ ~in_check(b, color)
     /\ get_piece(b, corner) = Piece("R", color)
     /\ \A file \in between : get_piece(b, <<row, file>>) = NoPiece
     /\ \A file \in crossed : ~is_square_attacked(b, <<row, file>>, Opponent(color))

CastleMove(color, kingside) ==
  LET row == IF color = "white" THEN 7 ELSE 0
  IN Move(<<row, 4>>, <<row, IF kingside THEN 6 ELSE 2>>, None, TRUE, FALSE)

\* Claim C16: generate_legal_moves holds no castling move when the king is
\* in check, when a square the king crosses or lands on is attacked, when
\* the rook is not on its corner or the right is cleared, or when a square
\* between king and rook is occupied; when none of these holds and the right
\* is set, it holds the castling move.
C16_CastlingIffAllowed ==
  LET legal == LegalMovesNow
  IN /\ \A kingside \in BOOLEAN :
          (\E i \in 1..Len(legal) : legal[i] = CastleMove(turn, kingside))
            <=> CastleAllowed(board, turn, kingside)
     /\ \A i \in 1..Len(legal) :
          legal[i].is_castle => \E kingside \in BOOLEAN : legal[i] = CastleMove(turn, kingside)

\* The right is set, the rook is there and the way is free, but the king
\* would cross an attacked square: no castling move on that side.
C16_Witness ==
  LET legal == LegalMovesNow
      row == IF turn = "white" THEN 7 ELSE 0
  IN /\ Len(board.history) > 0
     /\ board.castling_rights[IF turn = "white" THEN 2 ELSE 4]
     /\ get_piece(board, <<row, 0>>) = Piece("R", turn)
     /\ \A file \in {1, 2, 3} : get_piece(board, <<row, file>>) = NoPiece
     /\ ~in_check(board, turn)
     /\ is_square_attacked(board, <<row, 3>>, Opponent(turn))
     /\ \A i \in 1..Len(legal) : ~legal[i].is_castle

\* The home square of the king and the corner of the rook of right i.
RightSquares ==
  << <<<<7, 4>>, <<7, 7>>, "white">>, <<<<7, 4>>, <<7, 0>>, "white">>,
     <<<<0, 4>>, <<0, 7>>, "black">>, <<<<0, 4>>, <<0, 0>>, "black">> >>

RightsAtHome ==
  \A i \in 1..4 :
    board.castling_rights[i] =>
      /\ get_piece(board, RightSquares[i][1]) = Piece("K", RightSquares[i][3])
      /\ get_piece(board, RightSquares[i][2]) = Piece("R", RightSquares[i][3])

\* apply_move sets no right that was cleared.
NoRightRegained ==
  Len(board'.history) > Len(board.history) =>
    \A i \in 1..4 : board'.castling_rights[i] => board.castling_rights[i]

\* Claim C20: after any sequence of legal moves and undos, each castling
\* right still set implies that the king of that side is on its home square
\* and the rook of that side on its corner, and a right cleared by a king
\* move, a rook move from the corner or the capture of the rook on the
\* corner is never set again by a later apply_move.
C20_RightsNeedKingAndRookAtHome == [][RightsAtHome' /\ NoRightRegained]_vars

\* The rook has left h1 and come back: the king and both rooks are at home,
\* yet the kingside right stays cleared.
C20_Witness ==
  /\ Len(board.history) >= 3
  /\ get_piece(board, <<7, 4>>) = Piece("K", "white")
  /\ get_piece(board, <<7, 7>>) = Piece("R", "white")
  /\ ~board.castling_rights[1]
  /\ board.castling_rights[2]
  /\ board.history[1].move = Move(<<7, 7>>, <<6, 7>>, None, FALSE, FALSE)

----------------------------------------------------------------------------
(* En passant *)

\* Claim C17: generate_legal_moves holds no en-passant capture that leaves
\* the capturer's own king in check, be the capturing pawn pinned on its
\* file or the two pawns the only pieces between the king and an enemy rook
\* or queen on their rank.
C17_NoEnPassantIntoCheck ==
  LET legal == LegalMovesNow
  IN \A i \in 1..Len(legal) :
       legal[i].is_en_passant => ~in_check(apply_move(board, legal[i]), turn)

\* Black has just pushed d7-d5 beside the white pawn on e5, the white king
\* is on a5 and a black rook on h5: the capture e5xd6 is not offered.
C17_Witness ==
  LET legal == LegalMovesNow
  IN /\ turn = "white"
     /\ board.en_passant_square = <<2, 3>>
     /\ get_piece(board, <<3, 4>>) = Piece("P", "white")
     /\ get_piece(board, <<3, 3>>) = Piece("P", "black")
     /\ get_piece(board, <<3, 0>>) = Piece("K", "white")
     /\ get_piece(board, <<3, 7>>) = Piece("R", "black")
     /\ ~in_check(board, "white")
     /\ \A i \in 1..Len(legal) : ~legal[i].is_en_passant

\* The MoveState of the last move made.
LastMove == board.history[Len(board.history)]

\* Claim C18 as stated: whenever en_passant_square is set it is on rank 3
\* when Black made the last move and on rank 6 when White made the last
\* move, and a pawn of the side that just moved stands on the square
\* directly behind it.
C18_RankThreeAfterBlack ==
  board.en_passant_square # NoSquare =>
    /\ board.history # << >>
    /\ LET mover == LastMove.moved_piece.color
           row == board.en_passant_square[1]
       IN /\ row = (IF mover = "black" THEN 5 ELSE 2)
          /\ \E behind \in {row - 1, row + 1} :
               get_piece(board, <<behind, board.en_passant_square[2]>>) = Piece("P", mover)

\* Claim C18, amended: whenever en_passant_square is set it is on rank 3
\* when White made the last move and on rank 6 when Black made the last
\* move, the pawn of the side that just moved stands on the next square of
\* the file, on rank 4 or 5, and the square it came from and the en-passant
\* square are empty.
C18_RankThreeAfterWhite ==
  board.en_passant_square # NoSquare =>
    /\ board.history # << >>
    /\ LET mover == LastMove.moved_piece.color
           row == board.en_passant_square[1]
           file == board.en_passant_square[2]
       IN /\ row = (IF mover = "white" THEN 5 ELSE 2)
          /\ get_piece(board, <<IF mover = "white" THEN 4 ELSE 3, file>>) = Piece("P", mover)
          /\ get_piece(board, <<row, file>>) = NoPiece
          /\ get_piece(board, <<IF mover = "white" THEN 6 ELSE 1, file>>) = NoPiece

\* White has just played a2-a4: the square is a3, behind the pawn on a4.
C18_Witness ==
  /\ board.en_passant_square = <<5, 0>>
  /\ board.history # << >>
  /\ LastMove.moved_piece = Piece("P", "white")
  /\ get_piece(board, <<4, 0>>) = Piece("P", "white")
  /\ turn = "black"

\* The last move was a pawn's move of two squares.
DoublePush ==
  /\ board.history # << >>
  /\ LastMove.moved_piece.kind = "P"
  /\ Abs(LastMove.move.start[1] - LastMove.move.end[1]) = 2

\* Claim C19: after apply_move(m), en_passant_square is set if and only if
\* m moved a pawn two squares, and then it is the square between m's start
\* and end; every other move, an en-passant capture included, leaves it
\* unset, so an en-passant capture is offered only on the ply right after
\* the double push.
C19_SetOnlyByDoublePush ==
  LET legal == LegalMovesNow
  IN /\ board.en_passant_square # NoSquare <=> DoublePush
     /\ DoublePush =>
          /\ board.en_passant_square[2] = LastMove.move.start[2]
          /\ board.en_passant_square[2] = LastMove.move.end[2]
          /\ 2 * board.en_passant_square[1] = LastMove.move.start[1] + LastMove.move.end[1]
     /\ \A i \in 1..Len(legal) :
          legal[i].is_en_passant => DoublePush /\ legal[i].end = board.en_passant_square

\* An en-passant capture has just been made: the square is unset again.
C19_Witness ==
  /\ board.history # << >>
  /\ LastMove.move.is_en_passant
  /\ LastMove.captured # NoPiece
  /\ board.en_passant_square = NoSquare
  /\ Len(board.history) = 2

----------------------------------------------------------------------------
(* The kings stay on the board.                                             *)

Kings(b, color) == {idx \in 0..63 : PieceAtIndex(b, idx) = Piece("K", color)}

\* The request of the last make_move call asks a piece of the side to move
\* to go to the square of the other side's king.
AsksForKing ==
  /\ outcome.op = "make_move"
  /\ LET from == get_piece(board, algebraic_to_square(outcome.request[1]))
         to == get_piece(board, algebraic_to_square(outcome.request[2]))
     IN from # NoPiece /\ from.color = turn /\ to = Piece("K", Opponent(turn))

\* C21: after any make_move and undo calls the board holds exactly one king of
\* each colour, no legal move of either side ends on a square that holds a
\* king, no move played has captured a king, and a request to capture the
\* king raises.
C21_OneKingEach ==
  /\ \A color \in {"white", "black"} :
       /\ Cardinality(Kings(board, color)) = 1
       /\ LET legal == generate_legal_moves(board, color).moves
          IN \A i \in 1..Len(legal) : get_piece(board, legal[i].end).kind # "K"
  /\ \A i \in 1..Len(board.history) : board.history[i].captured.kind # "K"
  /\ AsksForKing => outcome.raised

\* The queen on e7 was asked to take the king on e8 and the call raised.
C21_Witness ==
  /\ AsksForKing
  /\ outcome.raised
  /\ is_square_attacked(board, algebraic_to_square(outcome.request[2]), turn)
  /\ Cardinality(Kings(board, "white")) = 1
  /\ Cardinality(Kings(board, "black")) = 1

----------------------------------------------------------------------------
(* C30: after any sequence of store calls every bucket of the table holds at *)
(* most bucket_size entries, no two entries of a bucket have the same key,   *)
(* and every entry lies in the bucket of index key mod size.                 *)

\* C30: the buckets are within capacity, free of duplicate keys, and hold
\* each entry at index key % size.
C30_BucketsWellFormed ==
  \A index \in DOMAIN transposition_table._table :
    LET bucket == transposition_table._table[index]
    IN /\ Len(bucket) <= transposition_table.bucket_size
       /\ \A i, j \in 1..Len(bucket) : bucket[i].key = bucket[j].key => i = j
       /\ \A i \in 1..Len(bucket) : bucket[i].key % transposition_table.size = index

\* The last store allowed found its bucket full and wrote its entry: nothing
\* of the first store is left in the bucket.
C30_Witness ==
  LET bucket == transposition_table._table[1 % TableSize]
  IN /\ outcome.op = "store"
     /\ transposition_table._counter = MaxStores
     /\ Len(bucket) = BucketSize
     /\ \A i \in 1..Len(bucket) : bucket[i].age > 0
     /\ \E i \in 1..Len(bucket) :
          bucket[i].key = outcome.request.key /\ bucket[i].age = MaxStores - 1

----------------------------------------------------------------------------
(* Claims about choose_move, on the calls of SpecEngine: outcome.request is  *)
(* what the caller passed and what the clock did, outcome.returned the move  *)
(* returned with the objects of the search as the call left them.            *)

Called == outcome.op = "choose_move_call"

\* The call set no node budget and no time limit.
Unbounded ==
  outcome.request.max_nodes = << >> /\ outcome.request.time_limit_ms = << >>

\* The call set no deadline: time_limit_ms is None or not positive.
Untimed ==
  outcome.request.time_limit_ms = << >> \/ outcome.request.time_limit_ms[1] <= 0

\* What the clock may do in a second call: never pass the deadline, have
\* passed it at the first poll, or pass it after MaxPolls polls.
OtherClocks == {<< >>, Some(0), Some(MaxPolls)}

\* A second call with what the caller passed to the first returns the move
\* the first returned, whatever the clock does during it.
SameMoveWhateverClock ==
  \A expiry \in OtherClocks :
    choose_move_call(board, outcome.request.depth, turn, outcome.request.max_nodes,
                     outcome.request.time_limit_ms, expiry,
                     TranspositionTable(EngineTableSize, EngineBucketSize)).move
      = outcome.returned.move

C23_CounterWithinBudget ==
  (Called /\ outcome.request.max_nodes # << >>)
    => outcome.returned.st.count <= outcome.request.max_nodes[1]

\* The move checkmates the opponent of color at once.
MatesAtOnce(b, color, move) ==
  LET after == apply_move(b, move)
  IN /\ in_check(after, Opponent(color))
     /\ generate_legal_moves(after, Opponent(color)).moves = << >>

\* The player to move has a move that checkmates at once.
HasMateInOne ==
  LET legal_moves == generate_legal_moves(from_board(board), turn).moves
  IN \E i \in 1..Len(legal_moves) : MatesAtOnce(from_board(board), turn, legal_moves[i])

\* C24: when the colour to play can checkmate at once and no node or time
\* budget is set, choose_move returns a move that checkmates at once.
C24_ReturnsMateInOne ==
  (Called /\ Unbounded /\ HasMateInOne)
    => /\ outcome.returned.move # NoMove
       /\ MatesAtOnce(from_board(board), turn, outcome.returned.move)

\* C25: at every iteration after the first that searches a root move, the
\* first root move searched is the best move of the previous iteration.
C25_PreviousBestSearchedFirst ==
  Called =>
    \A i \in 2..Len(outcome.returned.iterations) :
      outcome.returned.iterations[i].found
        => outcome.returned.iterations[i].legal_moves[1]
             = outcome.returned.iterations[i].previous

\* The number of pieces of the colour and of one of the kinds on the board.
PiecesOf(b, color, kinds) ==
  Cardinality({idx \in 0..63 : /\ PieceAtIndex(b, idx) # NoPiece
                               /\ PieceAtIndex(b, idx).color = color
                               /\ PieceAtIndex(b, idx).kind \in kinds})

\* C26 as claimed: a null move is tried only at depth >= 2, by a side not in
\* check that has a piece other than pawns and the king.
C26_NullMoveNeedsPiece ==
  Called =>
    \A tried \in outcome.returned.st.null_moves :
      /\ tried.depth >= 2
      /\ ~in_check(tried.board, tried.color)
      /\ PiecesOf(tried.board, tried.color, {"N", "B", "R", "Q"}) >= 1

\* C26, amended: a null move is tried only at depth >= 2, by a side not in
\* check that has a piece other than pawns and the king, or five pawns or more.
C26_NullMoveNeedsPieceOrFivePawns ==
  Called =>
    \A tried \in outcome.returned.st.null_moves :
      /\ tried.depth >= 2
      /\ ~in_check(tried.board, tried.color)
      /\ \/ PiecesOf(tried.board, tried.color, {"N", "B", "R", "Q"}) >= 1
         \/ PiecesOf(tried.board, tried.color, {"P"}) >= 5

\* A null move was tried by the side that has the knight.
C26_Witness ==
  /\ Called
  /\ \E tried \in outcome.returned.st.null_moves :
       PiecesOf(tried.board, tried.color, {"N"}) = 1

\* C27: the history score of a move is increased only when the move, not a
\* capture, causes a cutoff at its node.
C27_HistoryOnlyOnCutoff ==
  Called => \A update \in outcome.returned.st.history_updates : update.cutoff

\* C28: when choose_move returns, the board it searched on is as it was at
\* the call, in placement, castling rights, en-passant square, halfmove
\* clock and history, and every null move left the board as it found it.
C28_BoardRestored ==
  Called =>
    /\ outcome.returned.st.board = from_board(board)
    /\ \A tried \in outcome.returned.st.null_moves : tried.restored

\* A search of full depth with no budget that tried null moves has returned.
C28_Witness ==
  /\ Called
  /\ Unbounded
  /\ outcome.request.depth = MaxDepthEngine
  /\ outcome.returned.move # NoMove
  /\ outcome.returned.st.null_moves # {}

\* C29: no entry of the table that _minimax returns as the result of a node
\* was written by _quiescence.
C29_QuiescenceEntriesNotAccepted ==
  Called =>
    \A hit \in outcome.returned.st.accepted :
      <<hit.entry.key, hit.entry.age>> \notin outcome.returned.st.quiescence_entries

====
